---- MODULE Spec2Model ----
(***************************************************************************)
(* Serverless handlers of the litmusdaily site (the api functions). Each  *)
(* handler is deployed as its own function: it has its own `cache` and    *)
(* shares nothing with the other handlers.  A behaviour of this model      *)
(* follows one warm instance of one function (`fn`) through the calls it   *)
(* serves, with the wall clock advancing between and during the calls.     *)
(***************************************************************************)
EXTENDS Integers, Sequences, FiniteSets, TLC

VARIABLES
    fn,      \* which api function this instance hosts
    apiKey,  \* process.env.SOSOVALUE_API_KEY is set
    clock,   \* Date.now(), ms since the epoch
    ticks,   \* number of times the clock has moved (bounds the model)
    cache,   \* the module-level cache slot of the function
    res,     \* the last response sent: [status, body]
    reqs,    \* upstream requests issued by the last invocation, with answers
    step,    \* what the last step was: "boot", "tick" or "call"
    lastFresh, \* body of the last response built from freshly fetched data
    inv,     \* the invocations in flight when calls overlap: pc and locals
    briefData, \* app.js: the content object handed to the last render
    totalMarket, \* app.js: textContent of the element #total-market
    state,   \* personal.js: the object state (userCoins, availableCoins, ...)
    localStorage, \* personal.js: the item stored under CONFIG.storageKey
    document, \* personal.js: the parts of the DOM the handlers read and write
    events,  \* personal.js: number of events handled so far (bounds the model)
    currentRegion, \* app.js: the edition the user selected last
    loads,   \* app.js: the calls of loadContent so far, each with its position
    rendered \* app.js: the edition whose headline and week ahead are shown

vars == <<fn, apiKey, clock, ticks, cache, res, reqs, step, lastFresh, inv,
          briefData, totalMarket, state, localStorage, document, events,
          currentRegion, loads, rendered>>

\* the state of the pages (app.js, personal.js) and of an api function
appPage == <<briefData, totalMarket>>
personalPage == <<state, localStorage, document, events>>
editionPage == <<currentRegion, loads, rendered>>
browser == <<appPage, personalPage, editionPage>>
server == <<fn, apiKey, clock, ticks, cache, res, reqs, lastFresh, inv>>

(***************************************************************************)
(* Bounds of the model.                                                    *)
(***************************************************************************)
MaxTicks == 3
MaxData == 2
MaxStartDay == 6

\* Contents an upstream answers with (document versions); Failed = non-OK
\* status or a transport error.
Data == 1..MaxData
Failed == 0
Outcome == Data \cup {Failed}

MsPerDay == 24 * 60 * 60 * 1000

\* How far the clock moves between two calls to function f (instants around
\* the function's expiry boundary), and while a fetch is awaited.
Deltas(f) ==
    CASE f = "market"   -> {1, 1000, 299999}
      [] f = "coins"    -> {1, 1000, 899999}
      [] f = "personal" -> {1, 299999, MsPerDay - 400, MsPerDay}
      [] OTHER          -> {1000, MsPerDay}
FetchDurations == {0, 2000}

\* An instance cold-starts five minutes before UTC midnight of one of the
\* first days of the epoch; only the daily metric reads the day of the week.
StartDays(f) == IF f = "daily" THEN 0..MaxStartDay ELSE {0}
StartTime(day) == day * MsPerDay + (MsPerDay - 5 * 60 * 1000)

Functions == {"market", "coins", "personal", "daily", "mood", "etf", "podcast"}

(***************************************************************************)
(* JavaScript helpers.                                                     *)
(***************************************************************************)
\* null
Null == [null |-> TRUE]

\* truthiness of a value that is null or an object
Truthy(v) == v # Null

\* Math.round(n / d): nearest integer, halves towards +Infinity
MathRound(n, d) == (2 * n + d) \div (2 * d)

\* new Date(t).toISOString(): "YYYY-MM-DD" "T" "HH:mm:ss.sssZ" as the pair
\* <<UTC day number, ms within the day>>
toISOString(t) == <<t \div MsPerDay, t % MsPerDay>>

\* new Date(t).getUTCDay(): 0 = Sunday; the epoch was a Thursday
getUTCDay(t) == ((t \div MsPerDay) + 4) % 7

\* { ...base, ...over }: later keys win
Spread(base, over) == over @@ base

Response(status, body) == [status |-> status, body |-> body]

\* an upstream request as the upstream saw it
Request(name, ok, ans) == [req |-> name, ok |-> ok, ans |-> ans]

(***************************************************************************)
(* The clock.  A fetch that takes d ms moves the clock by d.               *)
(***************************************************************************)
CanTake(d) == d = 0 \/ ticks < MaxTicks

Elapse(d) ==
    /\ clock' = clock + d
    /\ ticks' = IF d > 0 THEN ticks + 1 ELSE ticks

\* A timer that empties the slot as time passes
AdvanceEvicting ==
    /\ ticks < MaxTicks
    /\ \E d \in Deltas(fn) : Elapse(d)
    /\ step' = "tick"
    /\ cache' = [cache EXCEPT !.data = Null]
    /\ UNCHANGED <<fn, apiKey, res, reqs, lastFresh>>
    /\ UNCHANGED <<inv, browser>>

Advance ==
    /\ ticks < MaxTicks
    /\ \E d \in Deltas(fn) : Elapse(d)
    /\ step' = "tick"
    /\ UNCHANGED <<fn, apiKey, cache, res, reqs, lastFresh>>
    /\ UNCHANGED <<inv, browser>>

(***************************************************************************)
(* api/market-cache.js : BTC, ETH and global market data, 5 minute cache.  *)
(***************************************************************************)
CACHE_DURATION(f) ==
    CASE f = "market"   -> 5 * 60 * 1000
      [] f = "coins"    -> 15 * 60 * 1000
      [] f = "personal" -> 24 * 60 * 60 * 1000

\* Upstream documents.  Amounts of USD are in 1e6 USD, percentages in tenths
\* of a percent.  Document n of a feed differs from document m in its figures.
\* CoinGecko simple/price
PriceDoc(p) ==
    [bitcoin  |-> [usd |-> 97000 + p, usd_24h_change |-> p,
                   usd_market_cap |-> 1900000 + p],
     ethereum |-> [usd |-> 3600 + p, usd_24h_change |-> 0 - p,
                   usd_market_cap |-> 430000 + p]]

\* CoinGecko global
GlobalDoc(g) ==
    [total_market_cap |-> 3400000 + g,
     total_volume |-> 140000 + g,
     market_cap_change_percentage_24h_usd |-> g,
     market_cap_percentage |-> [btc |-> 540 + g, eth |-> 120 + g, usdt |-> 40,
                                bnb |-> 30, sol |-> 20, xrp |-> 10],
     active_cryptocurrencies |-> 9000 + g,
     markets |-> 1000 + g]

\* CoinGecko coins/markets: document r lists r coins
CoinsDoc(r) ==
    [i \in 1..r |->
        [id |-> i, symbol |-> IF i = 1 THEN "btc" ELSE "eth",
         current_price |-> 100 * r + i, market_cap |-> 1000 * r + i,
         market_cap_rank |-> i, total_volume |-> 10 * r + i,
         price_change_percentage_24h |-> r - i]]

toUpperCase(symbol) == IF symbol = "btc" THEN "BTC" ELSE "ETH"

fetchPrices(p) ==
    LET data == PriceDoc(p) IN
    [btc |-> [price |-> data.bitcoin.usd,
              change24h |-> data.bitcoin.usd_24h_change,
              marketCap |-> data.bitcoin.usd_market_cap],
     eth |-> [price |-> data.ethereum.usd,
              change24h |-> data.ethereum.usd_24h_change,
              marketCap |-> data.ethereum.usd_market_cap]]

fetchGlobalData(g) ==
    LET global == GlobalDoc(g) IN
    [totalMarketCap |-> global.total_market_cap,
     totalVolume24h |-> global.total_volume,
     marketCapChange24h |-> global.market_cap_change_percentage_24h_usd,
     btcDominance |-> global.market_cap_percentage.btc,
     ethDominance |-> global.market_cap_percentage.eth,
     activeCryptos |-> global.active_cryptocurrencies]

getFallbackData(t) ==
    [btc |-> [price |-> 97500, change24h |-> 0, marketCap |-> 1920000],
     eth |-> [price |-> 3650, change24h |-> 0, marketCap |-> 440000],
     market |-> [totalMarketCap |-> 3500000,
                 totalVolume24h |-> 150000,
                 marketCapChange24h |-> 0,
                 btcDominance |-> 548,
                 ethDominance |-> 125,
                 activeCryptos |-> 10000],
     updated |-> toISOString(t),
     updatedTimestamp |-> t,
     cached |-> FALSE,
     fallback |-> TRUE]

\* the freshness check of the market handler
MarketIsFresh(c, now) ==
    Truthy(c.data) /\ (now - c.timestamp) < CACHE_DURATION("market")

MarketServeCached(c, now) ==
    Response(200, Spread(c.data,
        [cached |-> TRUE, cacheAge |-> MathRound(now - c.timestamp, 1000)]))

\* MarketRequests with one retry after a failure
MarketRequestsRetry(p, g) ==
    IF p = Failed \/ g = Failed
    THEN <<Request("price", p # Failed, p), Request("global", g # Failed, g),
           Request("price", p # Failed, p), Request("global", g # Failed, g)>>
    ELSE <<Request("price", p # Failed, p), Request("global", g # Failed, g)>>

\* the two parallel calls of Promise.all: both are issued, once
MarketRequests(p, g) ==
    <<Request("price", p # Failed, p), Request("global", g # Failed, g)>>

\* MarketFetchFails that overlooks a rejected global call
MarketFetchFailsPriceOnly(p, g) == p = Failed

\* Promise.all rejects when either call rejects
MarketFetchFails(p, g) == p = Failed \/ g = Failed

MarketFreshData(p, g, now, doneAt) ==
    [btc |-> fetchPrices(p).btc,
     eth |-> fetchPrices(p).eth,
     market |-> fetchGlobalData(g),
     updated |-> toISOString(doneAt),
     updatedTimestamp |-> now]

MarketWrite(freshData, now) == [data |-> freshData, timestamp |-> now]

MarketServeFresh(freshData) ==
    Response(200, Spread(freshData, [cached |-> FALSE]))

\* MarketCatch without the stale branch
MarketCatchNoStale(c, now, doneAt) == Response(200, getFallbackData(doneAt))

\* MarketCatch answering like the top-100 function when the slot is absent
MarketCatchError(c, now, doneAt) ==
    IF Truthy(c.data)
    THEN Response(200, Spread(c.data,
             [cached |-> TRUE, stale |-> TRUE,
              cacheAge |-> MathRound(now - c.timestamp, 1000),
              error |-> "Using stale data due to API error"]))
    ELSE Response(500, [error |-> "Failed to fetch market data"])

MarketCatch(c, now, doneAt) ==
    IF Truthy(c.data)
    THEN Response(200, Spread(c.data,
             [cached |-> TRUE, stale |-> TRUE,
              cacheAge |-> MathRound(now - c.timestamp, 1000),
              error |-> "Using stale data due to API error"]))
    ELSE Response(200, getFallbackData(doneAt))

MarketCacheHandler ==
    /\ fn = "market"
    /\ LET now == clock IN
       IF MarketIsFresh(cache, now)
       THEN /\ res' = MarketServeCached(cache, now)
            /\ reqs' = <<>>
            /\ UNCHANGED <<cache, clock, ticks, lastFresh>>
       ELSE \E p \in Outcome, g \in Outcome, d \in FetchDurations :
            /\ CanTake(d)
            /\ Elapse(d)
            /\ reqs' = MarketRequests(p, g)
            /\ IF MarketFetchFails(p, g)
               THEN /\ res' = MarketCatch(cache, now, clock + d)
                    /\ UNCHANGED <<cache, lastFresh>>
               ELSE LET freshData == MarketFreshData(p, g, now, clock + d) IN
                    /\ cache' = MarketWrite(freshData, now)
                    /\ res' = MarketServeFresh(freshData)
                    /\ lastFresh' = res'.body
    /\ step' = "call"
    /\ UNCHANGED <<fn, apiKey>>
    /\ UNCHANGED <<inv, browser>>

(***************************************************************************)
(* api/coins-cache : top 100 coins, 15 minute cache.                       *)
(***************************************************************************)
\* the coins of document r in the standardized format
fetchTop100Coins(r) ==
    LET data == CoinsDoc(r) IN
    [i \in 1..Len(data) |->
        [id |-> data[i].id, symbol |-> toUpperCase(data[i].symbol),
         price |-> data[i].current_price, marketCap |-> data[i].market_cap,
         rank |-> data[i].market_cap_rank, volume24h |-> data[i].total_volume,
         change24h |-> data[i].price_change_percentage_24h]]

CoinsRequests(r) == <<Request("coins", r # Failed, r)>>

\* CoinsIsFresh with the window taken in seconds
CoinsIsFreshSeconds(c, now) ==
    Truthy(c.data) /\ (now - c.timestamp) < 15 * 60

CoinsIsFresh(c, now) ==
    Truthy(c.data) /\ (now - c.timestamp) < CACHE_DURATION("coins")

CoinsServeCached(c, now) ==
    Response(200, Spread(c.data,
        [cached |-> TRUE, cacheAge |-> MathRound(now - c.timestamp, 1000)]))

CoinsFreshData(r, now, doneAt) ==
    [coins |-> fetchTop100Coins(r),
     count |-> Len(fetchTop100Coins(r)),
     updated |-> toISOString(doneAt),
     updatedTimestamp |-> now]

CoinsWrite(freshData, now) == [data |-> freshData, timestamp |-> now]

CoinsServeFresh(freshData) ==
    Response(200, Spread(freshData, [cached |-> FALSE]))

\* CoinsCatch without the stale branch
CoinsCatchAlwaysError(c, now) ==
    Response(500, [error |-> "Failed to fetch coin data",
                   coins |-> <<>>, count |-> 0])

CoinsCatch(c, now) ==
    IF Truthy(c.data)
    THEN Response(200, Spread(c.data,
             [cached |-> TRUE, stale |-> TRUE,
              cacheAge |-> MathRound(now - c.timestamp, 1000),
              error |-> "Using stale data due to API error"]))
    ELSE Response(500, [error |-> "Failed to fetch coin data",
                        coins |-> <<>>, count |-> 0])

CoinsCacheHandler ==
    /\ fn = "coins"
    /\ LET now == clock IN
       IF CoinsIsFresh(cache, now)
       THEN /\ res' = CoinsServeCached(cache, now)
            /\ reqs' = <<>>
            /\ UNCHANGED <<cache, clock, ticks, lastFresh>>
       ELSE \E r \in Outcome, d \in FetchDurations :
            /\ CanTake(d)
            /\ Elapse(d)
            /\ reqs' = CoinsRequests(r)
            /\ IF r = Failed
               THEN /\ res' = CoinsCatch(cache, now)
                    /\ UNCHANGED <<cache, lastFresh>>
               ELSE LET freshData == CoinsFreshData(r, now, clock + d) IN
                    /\ cache' = CoinsWrite(freshData, now)
                    /\ res' = CoinsServeFresh(freshData)
                    /\ lastFresh' = res'.body
    /\ step' = "call"
    /\ UNCHANGED <<fn, apiKey>>
    /\ UNCHANGED <<inv, browser>>

(***************************************************************************)
(* api/personal-cache : extended coin data, refreshed once per UTC day.    *)
(***************************************************************************)
NoDate == -1

fetchCoinsWithHistory(r) ==
    LET data == CoinsDoc(r) IN
    [i \in 1..Len(data) |->
        [id |-> data[i].id, symbol |-> toUpperCase(data[i].symbol),
         price |-> data[i].current_price, marketCap |-> data[i].market_cap,
         rank |-> data[i].market_cap_rank, volume24h |-> data[i].total_volume]]

fetchMarketHistory(g) ==
    LET global == GlobalDoc(g) IN
    [totalMarketCap |-> global.total_market_cap,
     totalVolume24h |-> global.total_volume,
     marketCapChange24h |-> global.market_cap_change_percentage_24h_usd,
     btcDominance |-> global.market_cap_percentage.btc,
     ethDominance |-> global.market_cap_percentage.eth,
     activeCryptos |-> global.active_cryptocurrencies,
     markets |-> global.markets,
     dominance |-> global.market_cap_percentage]

\* today = new Date().toISOString().split('T')[0]
Today(t) == toISOString(t)[1]

\* PersonalIsFresh by age, with the declared 24 hour duration
PersonalIsFreshByAge(c, now, today) ==
    Truthy(c.data) /\ (now - c.timestamp) < CACHE_DURATION("personal")

PersonalIsFresh(c, now, today) == Truthy(c.data) /\ c.date = today

PersonalServeCached(c, now) ==
    Response(200, Spread(c.data,
        [cached |-> TRUE, cacheAge |-> MathRound(now - c.timestamp, 1000)]))

\* the two parallel calls of Promise.all: both are issued, once
PersonalRequests(r, g) ==
    <<Request("coins", r # Failed, r), Request("global", g # Failed, g)>>

\* Promise.all rejects when either call rejects
PersonalFetchFails(r, g) == r = Failed \/ g = Failed

PersonalFreshData(r, g, now, today, doneAt) ==
    [coins |-> fetchCoinsWithHistory(r),
     market |-> fetchMarketHistory(g),
     updated |-> toISOString(doneAt),
     updatedTimestamp |-> now,
     dataDate |-> today]

PersonalWrite(freshData, now, today) ==
    [data |-> freshData, timestamp |-> now, date |-> today]

PersonalServeFresh(freshData) ==
    Response(200, Spread(freshData, [cached |-> FALSE]))

PersonalCatch(c, now) ==
    IF Truthy(c.data)
    THEN Response(200, Spread(c.data,
             [cached |-> TRUE, stale |-> TRUE,
              cacheAge |-> MathRound(now - c.timestamp, 1000),
              error |-> "Using stale data due to API error"]))
    ELSE Response(500, [error |-> "Failed to fetch personal data",
                        coins |-> <<>>, market |-> [x \in {} |-> x]])

PersonalCacheHandler ==
    /\ fn = "personal"
    /\ LET now == clock
           today == Today(clock) IN
       IF PersonalIsFresh(cache, now, today)
       THEN /\ res' = PersonalServeCached(cache, now)
            /\ reqs' = <<>>
            /\ UNCHANGED <<cache, clock, ticks, lastFresh>>
       ELSE \E r \in Outcome, g \in Outcome, d \in FetchDurations :
            /\ CanTake(d)
            /\ Elapse(d)
            /\ reqs' = PersonalRequests(r, g)
            /\ IF PersonalFetchFails(r, g)
               THEN /\ res' = PersonalCatch(cache, now)
                    /\ UNCHANGED <<cache, lastFresh>>
               ELSE LET freshData == PersonalFreshData(r, g, now, today, clock + d) IN
                    /\ cache' = PersonalWrite(freshData, now, today)
                    /\ res' = PersonalServeFresh(freshData)
                    /\ lastFresh' = res'.body
    /\ step' = "call"
    /\ UNCHANGED <<fn, apiKey>>
    /\ UNCHANGED <<inv, browser>>

(***************************************************************************)
(* api/the-number : the daily rotating metric.                             *)
(***************************************************************************)
\* NaN: compares false with every number
NaN == -999999
Gt(a, b) == a # NaN /\ a > b

\* x / y for y > 0 rounded to the nearest integer, halves away from zero
\* (toFixed(0)); NaN stays NaN
RoundDiv(x, y) ==
    IF x = NaN THEN NaN
    ELSE IF x >= 0 THEN (2 * x + y) \div (2 * y)
    ELSE 0 - ((2 * (0 - x) + y) \div (2 * y))

RECURSIVE SumBy(_, _)
SumBy(seq, field) ==
    IF seq = <<>> THEN 0 ELSE Head(seq)[field] + SumBy(Tail(seq), field)

\* Selector counting the days from Monday = 0
SelectorFromMonday(dayOfWeek) ==
    CASE dayOfWeek = 0 -> "fear_greed"
      [] dayOfWeek = 1 -> "btc_dominance"
      [] dayOfWeek = 2 -> "funding_rates"
      [] dayOfWeek = 3 -> "open_interest"
      [] OTHER         -> "stablecoin_supply"

\* the switch on dayOfWeek: which metric is fetched
Selector(dayOfWeek) ==
    CASE dayOfWeek = 1 -> "fear_greed"
      [] dayOfWeek = 2 -> "btc_dominance"
      [] dayOfWeek = 3 -> "funding_rates"
      [] dayOfWeek = 4 -> "open_interest"
      [] OTHER         -> "stablecoin_supply"

\* What an upstream of the daily metric answers: Failed (non-OK status or
\* transport error), NoData (an answer without the data looked for), or a
\* document.
Down == [status |-> "down"]
NoData == [status |-> "nodata"]
Doc(d) == [status |-> "ok", doc |-> d]
Answers(metric_docs) == {Down, NoData} \cup {Doc(d) : d \in metric_docs}

\* alternative.me: data[0].value in 0..100, data[29].value or absent (-1)
FearGreedDocs ==
    {[value |-> v, ago |-> a] : v \in 0..100, a \in {-1, 50}}

\* CoinGecko global: dominance in tenths of a percent
DominanceDocs ==
    {[btc |-> b, eth |-> 185] : b \in {0, 449, 450, 499, 500, 520, 549, 550, 600}}

\* CoinGlass funding: uMarginList of the BTC entry, rates in 1e-6 (per 8 h)
FundingDocs ==
    {<<>>, <<[rate |-> 0]>>, <<[rate |-> 100]>>, <<[rate |-> 101]>>,
     <<[rate |-> 300]>>, <<[rate |-> 301]>>, <<[rate |-> 200], [rate |-> 400]>>,
     <<[rate |-> -99]>>, <<[rate |-> -100]>>, <<[rate |-> -299]>>,
     <<[rate |-> -300]>>, <<[rate |-> -500], [rate |-> -300]>>}

\* CoinGlass open interest of the BTC entry, in 1e8 USD; h24Change in tenths
OpenInterestDocs ==
    {[openInterest |-> o, h24Change |-> 23] : o \in {0, 149, 150, 151, 185, 200, 201, 250}}

\* CoinGecko stablecoin markets: market cap in 1e9 USD, 24 h change in 1/100 %
StablecoinDocs ==
    {<<>>} \cup
    {<<[symbol |-> "usdt", market_cap |-> 83, change |-> c]>> :
        c \in {-60, -51, -50, -49, 0, 49, 50, 51, 60}} \cup
    {<<[symbol |-> "usdt", market_cap |-> 83, change |-> 60],
       [symbol |-> "usdc", market_cap |-> 42, change |-> 40]>>}

UpstreamDocs(metric) ==
    CASE metric = "fear_greed"        -> FearGreedDocs
      [] metric = "btc_dominance"     -> DominanceDocs
      [] metric = "funding_rates"     -> FundingDocs
      [] metric = "open_interest"     -> OpenInterestDocs
      [] metric = "stablecoin_supply" -> StablecoinDocs

getFallbackFearGreed ==
    [metric |-> "fear_greed", label |-> "FEAR & GREED", value |-> 65,
     numericValue |-> 65, unit |-> "/100", subtitle |-> "Greed",
     context |-> "Greed is building - momentum favors bulls, but watch for overextension",
     interpretation |-> "optimistic", change |-> Null, history |-> <<>>,
     historyLabel |-> "6 months", source |-> "fallback"]

\* Thresholds read as exclusive upper bounds
FearGreedInterpretationExclusive(current) ==
    IF current < 20 THEN
        [interpretation |-> "bearish",
         context |-> "Extreme fear often precedes reversals - historically a buying opportunity"]
    ELSE IF current < 40 THEN
        [interpretation |-> "cautious",
         context |-> "Fear dominates - crowd is nervous, but not panicking"]
    ELSE IF current < 60 THEN
        [interpretation |-> "neutral",
         context |-> "Neither fear nor greed dominates - market in equilibrium"]
    ELSE IF current < 80 THEN
        [interpretation |-> "optimistic",
         context |-> "Greed is building - momentum favors bulls, but watch for overextension"]
    ELSE
        [interpretation |-> "bullish",
         context |-> "Extreme greed - historically precedes corrections. Caution warranted"]

FearGreedInterpretation(current) ==
    IF current <= 20 THEN
        [interpretation |-> "bearish",
         context |-> "Extreme fear often precedes reversals - historically a buying opportunity"]
    ELSE IF current <= 40 THEN
        [interpretation |-> "cautious",
         context |-> "Fear dominates - crowd is nervous, but not panicking"]
    ELSE IF current <= 60 THEN
        [interpretation |-> "neutral",
         context |-> "Neither fear nor greed dominates - market in equilibrium"]
    ELSE IF current <= 80 THEN
        [interpretation |-> "optimistic",
         context |-> "Greed is building - momentum favors bulls, but watch for overextension"]
    ELSE
        [interpretation |-> "bullish",
         context |-> "Extreme greed - historically precedes corrections. Caution warranted"]

getFearAndGreed(ans) ==
    IF ans = Down \/ ans = NoData THEN getFallbackFearGreed
    ELSE LET current == ans.doc.value
             thirtyDaysAgo == IF ans.doc.ago # -1 THEN ans.doc.ago ELSE current
             change == current - thirtyDaysAgo
         IN [metric |-> "fear_greed", label |-> "FEAR & GREED", value |-> current,
             numericValue |-> current, unit |-> "/100", subtitle |-> "classification",
             context |-> FearGreedInterpretation(current).context,
             interpretation |-> FearGreedInterpretation(current).interpretation,
             change |-> IF change # 0 THEN [vs30d |-> change] ELSE Null,
             history |-> <<>>, historyLabel |-> "6 months",
             source |-> "alternative.me"]

\* Thresholds read as inclusive upper bounds of the lower bucket
DominanceInterpretationUpper(dominance) ==
    IF dominance > 550 THEN
        [interpretation |-> "risk-off",
         context |-> "Capital favoring Bitcoin over alts - flight to quality, risk-off positioning"]
    ELSE IF dominance > 500 THEN
        [interpretation |-> "balanced",
         context |-> "Healthy Bitcoin leadership - alts following, not leading"]
    ELSE IF dominance > 450 THEN
        [interpretation |-> "risk-on",
         context |-> "Capital rotating to alts - risk appetite increasing"]
    ELSE
        [interpretation |-> "alt-season",
         context |-> "Alt season signals - historically unsustainable, late-cycle behavior"]

DominanceInterpretation(dominance) ==
    IF dominance >= 550 THEN
        [interpretation |-> "risk-off",
         context |-> "Capital favoring Bitcoin over alts - flight to quality, risk-off positioning"]
    ELSE IF dominance >= 500 THEN
        [interpretation |-> "balanced",
         context |-> "Healthy Bitcoin leadership - alts following, not leading"]
    ELSE IF dominance >= 450 THEN
        [interpretation |-> "risk-on",
         context |-> "Capital rotating to alts - risk appetite increasing"]
    ELSE
        [interpretation |-> "alt-season",
         context |-> "Alt season signals - historically unsustainable, late-cycle behavior"]

getBTCDominance(ans) ==
    IF ans = Down THEN
        [metric |-> "btc_dominance", label |-> "BTC DOMINANCE", value |-> 520,
         numericValue |-> 520, unit |-> "%", subtitle |-> [eth |-> 185],
         context |-> "Healthy Bitcoin leadership - alts following, not leading",
         interpretation |-> "balanced", change |-> Null, history |-> <<>>,
         historyLabel |-> "6 months", source |-> "fallback"]
    ELSE LET dominance == IF ans = NoData THEN 0 ELSE ans.doc.btc
             ethDominance == IF ans = NoData THEN 0 ELSE ans.doc.eth
         IN [metric |-> "btc_dominance", label |-> "BTC DOMINANCE",
             value |-> dominance, numericValue |-> dominance, unit |-> "%",
             subtitle |-> [eth |-> ethDominance],
             context |-> DominanceInterpretation(dominance).context,
             interpretation |-> DominanceInterpretation(dominance).interpretation,
             change |-> Null, history |-> <<>>, historyLabel |-> "6 months",
             source |-> "coingecko"]

\* value 0.0100 % per 8 h is 100e-6
getFallbackFundingRates ==
    [metric |-> "funding_rates", label |-> "FUNDING RATE", value |-> 100,
     numericValue |-> 100, unit |-> "%", subtitle |-> [apr |-> 11],
     context |-> "Modest long bias - healthy bullish positioning",
     interpretation |-> "bullish-bias", change |-> Null, history |-> <<>>,
     historyLabel |-> "30 days", source |-> "fallback"]

FundingInterpretation(avgRate) ==
    IF Gt(avgRate, 300) THEN
        [interpretation |-> "crowded-long",
         context |-> "Longs paying heavily - crowded trade. Squeeze risk if price drops"]
    ELSE IF Gt(avgRate, 100) THEN
        [interpretation |-> "bullish-bias",
         context |-> "Modest long bias - healthy bullish positioning"]
    ELSE IF Gt(avgRate, -100) THEN
        [interpretation |-> "neutral",
         context |-> "Funding neutral - no strong directional bias in derivatives"]
    ELSE IF Gt(avgRate, -300) THEN
        [interpretation |-> "bearish-bias",
         context |-> "Shorts paying - contrarian signal, potential squeeze setup"]
    ELSE
        [interpretation |-> "crowded-short",
         context |-> "Extreme negative funding - shorts crowded, squeeze likely"]

\* sum of the rates / (length || 1)
FundingAvgRate(uMarginList) ==
    SumBy(uMarginList, "rate") \div (IF Len(uMarginList) = 0 THEN 1 ELSE Len(uMarginList))

getFundingRates(ans) ==
    IF ans = Down \/ ans = NoData THEN getFallbackFundingRates
    ELSE LET avgRate == FundingAvgRate(ans.doc)
             \* annualized = avgRate * 3 * 365, a fraction; toFixed(0)
             annualized == RoundDiv(avgRate * 3 * 365, 1000000)
         IN [metric |-> "funding_rates", label |-> "FUNDING RATE",
             value |-> avgRate, numericValue |-> avgRate, unit |-> "%",
             subtitle |-> [apr |-> annualized],
             context |-> FundingInterpretation(avgRate).context,
             interpretation |-> FundingInterpretation(avgRate).interpretation,
             change |-> Null, history |-> <<>>, historyLabel |-> "30 days",
             source |-> "coinglass"]

getFallbackOpenInterest ==
    [metric |-> "open_interest", label |-> "OPEN INTEREST", value |-> 185,
     numericValue |-> 185, unit |-> "B", subtitle |-> [h24 |-> 23],
     context |-> "Healthy leverage levels - normal market structure",
     interpretation |-> "normal", change |-> Null, history |-> <<>>,
     historyLabel |-> "6 months", source |-> "fallback"]

OpenInterestInterpretation(totalOI) ==
    IF totalOI > 200 THEN
        [interpretation |-> "elevated-risk",
         context |-> "Leverage extended - high OI means violent moves possible on liquidations"]
    ELSE IF totalOI > 150 THEN
        [interpretation |-> "normal",
         context |-> "Healthy leverage levels - normal market structure"]
    ELSE
        [interpretation |-> "low-leverage",
         context |-> "Low leverage - market less prone to cascading liquidations"]

getOpenInterest(ans) ==
    IF ans = Down \/ ans = NoData THEN getFallbackOpenInterest
    ELSE LET totalOI == ans.doc.openInterest
         IN [metric |-> "open_interest", label |-> "OPEN INTEREST",
             value |-> totalOI, numericValue |-> totalOI, unit |-> "B",
             subtitle |-> [h24 |-> ans.doc.h24Change],
             context |-> OpenInterestInterpretation(totalOI).context,
             interpretation |-> OpenInterestInterpretation(totalOI).interpretation,
             change |-> Null, history |-> <<>>, historyLabel |-> "6 months",
             source |-> "coinglass"]

StablecoinInterpretation(avgChange) ==
    IF Gt(avgChange, 50) THEN
        [interpretation |-> "accumulating",
         context |-> "Fresh capital entering - stablecoin minting signals buying preparation"]
    ELSE IF Gt(avgChange, -50) THEN
        [interpretation |-> "neutral",
         context |-> "Dry powder stable - capital waiting on sidelines for opportunity"]
    ELSE
        [interpretation |-> "deploying",
         context |-> "Stablecoins converting to crypto - capital being deployed"]

\* sum of the changes / coins.length : 0 / 0 is NaN
StablecoinAvgChange(coins) ==
    IF Len(coins) = 0 THEN NaN ELSE SumBy(coins, "change") \div Len(coins)

CapOf(coins, symbol) ==
    IF \E i \in 1..Len(coins) : coins[i].symbol = symbol
    THEN coins[CHOOSE i \in 1..Len(coins) :
                   /\ coins[i].symbol = symbol
                   /\ \A j \in 1..(i - 1) : coins[j].symbol # symbol].market_cap
    ELSE -1

getStablecoinSupply(ans) ==
    IF ans = Down \/ ans = NoData THEN
        [metric |-> "stablecoin_supply", label |-> "STABLECOIN SUPPLY",
         value |-> 150, numericValue |-> 150, unit |-> "B",
         subtitle |-> [usdt |-> 83, usdc |-> 42],
         context |-> "Dry powder stable - capital waiting on sidelines for opportunity",
         interpretation |-> "neutral", change |-> Null, history |-> <<>>,
         historyLabel |-> "12 months", source |-> "fallback"]
    ELSE LET totalSupply == SumBy(ans.doc, "market_cap")
             avgChange == StablecoinAvgChange(ans.doc)
         IN [metric |-> "stablecoin_supply", label |-> "STABLECOIN SUPPLY",
             value |-> totalSupply, numericValue |-> totalSupply, unit |-> "B",
             subtitle |-> [usdt |-> CapOf(ans.doc, "usdt"),
                          usdc |-> CapOf(ans.doc, "usdc")],
             context |-> StablecoinInterpretation(avgChange).context,
             interpretation |-> StablecoinInterpretation(avgChange).interpretation,
             change |-> IF avgChange # 0 THEN [h24 |-> avgChange] ELSE Null,
             history |-> <<>>, historyLabel |-> "12 months",
             source |-> "coingecko"]

\* the fetcher the switch calls for a metric, applied to the upstream answer
FetchMetric(metric, ans) ==
    CASE metric = "fear_greed"        -> getFearAndGreed(ans)
      [] metric = "btc_dominance"     -> getBTCDominance(ans)
      [] metric = "funding_rates"     -> getFundingRates(ans)
      [] metric = "open_interest"     -> getOpenInterest(ans)
      [] metric = "stablecoin_supply" -> getStablecoinSupply(ans)

\* The payload of the handler's own catch block.  Every fetcher catches its
\* own failures and returns a payload, so no upstream answer leads here.
HandlerFallback(message) ==
    [metric |-> "stablecoin_supply", label |-> "STABLECOIN SUPPLY",
     value |-> "$150B", numericValue |-> 150, unit |-> "B",
     context |-> "Dry powder on the sidelines", interpretation |-> "neutral",
     change |-> Null, history |-> <<>>, source |-> "fallback",
     error |-> message]

Metrics ==
    {"fear_greed", "btc_dominance", "funding_rates", "open_interest",
     "stablecoin_supply"}

\* Every payload the code of the endpoint builds: what each fetcher returns
\* for each upstream answer, and the payload of the handler's catch block.
DailyPayloads ==
    UNION {{FetchMetric(m, a) : a \in Answers(UpstreamDocs(m))} : m \in Metrics}
        \cup {HandlerFallback("error")}

DailyServe(data, dayOfWeek, doneAt) ==
    Response(200, Spread(data,
        [dayOfWeek |-> dayOfWeek, updated |-> toISOString(doneAt)]))

DailyMetricHandler ==
    /\ fn = "daily"
    /\ LET dayOfWeek == getUTCDay(clock)
           metric == Selector(dayOfWeek) IN
       \E ans \in Answers(UpstreamDocs(metric)), d \in FetchDurations :
            /\ CanTake(d)
            /\ Elapse(d)
            /\ reqs' = <<Request(metric, ans # Down, ans)>>
            /\ res' = DailyServe(FetchMetric(metric, ans), dayOfWeek, clock + d)
    /\ step' = "call"
    /\ UNCHANGED <<fn, apiKey, cache, lastFresh>>
    /\ UNCHANGED <<inv, browser>>

(***************************************************************************)
(* api/market-mood : breadth and M/V ratio, no cache.                      *)
(***************************************************************************)
\* CoinGecko global: total market cap and 24 h volume (1e9 USD)
MoodGlobalDocs == {[cap |-> 3500, volume |-> 150], [cap |-> 3500, volume |-> 0]}

\* CoinGecko markets: how many coins are listed and how many are green
\* (an empty list among them)
MoodCoinsDocs ==
    {[green |-> 55, total |-> 100], [green |-> 0, total |-> 100],
     [green |-> 0, total |-> 0]}

\* MoodFallback surfacing the failure as an error status
MoodFallbackError(message) ==
    Response(500, [success |-> FALSE, error |-> message])

MoodFallback(message) ==
    Response(200, [success |-> FALSE, error |-> message, breadth |-> 550,
                   breadthAvg24h |-> 520, mvRatio24h |-> 220, mvRatio7d |-> 250,
                   trail |-> <<[breadth |-> 550, mv |-> 220]>>, trail7d |-> <<>>,
                   mvRange |-> [low |-> 10, high |-> 45]])

\* the response with no history file (trails hold the current point only);
\* breadth and ratios in tenths, as rounded by Math.round(x * 10) / 10
MoodServe(g, c, doneAt) ==
    LET \* (greenCoins / coins.length) * 100 : 0 / 0 is NaN
        breadth == IF c.total = 0 THEN NaN ELSE RoundDiv(c.green * 1000, c.total)
        mvRatio24h == IF g.volume > 0 THEN RoundDiv(g.cap * 10, g.volume) ELSE 200
    IN Response(200, [success |-> TRUE, lastUpdated |-> toISOString(doneAt),
                      breadth |-> breadth, breadthAvg24h |-> breadth,
                      mvRatio24h |-> mvRatio24h, mvRatio7d |-> mvRatio24h,
                      trail |-> <<[breadth |-> breadth, mv |-> mvRatio24h]>>,
                      trail7d |-> <<>>, mvRange |-> [low |-> 10, high |-> 45],
                      dataPoints |-> [hourly |-> 1, daily |-> 0],
                      raw |-> [totalMarketCap |-> g.cap, totalVolume24h |-> g.volume,
                               greenCoins |-> c.green, totalCoins |-> c.total]])

MarketMoodHandler ==
    /\ fn = "mood"
    /\ \E method \in {"GET", "OPTIONS"} :
       IF method = "OPTIONS"
       THEN /\ res' = Response(200, Null)
            /\ reqs' = <<>>
            /\ UNCHANGED <<clock, ticks>>
       ELSE \E g \in Answers(MoodGlobalDocs) \ {NoData},
               c \in Answers(MoodCoinsDocs) \ {NoData},
               d \in FetchDurations :
            /\ CanTake(d)
            /\ Elapse(d)
            /\ IF g = Down
               THEN /\ reqs' = <<Request("global", FALSE, g)>>
                    /\ res' = MoodFallback("Failed to fetch global data")
               ELSE /\ reqs' = <<Request("global", TRUE, g),
                                 Request("coins", c # Down, c)>>
                    /\ res' = IF c = Down
                              THEN MoodFallback("Failed to fetch coins data")
                              ELSE MoodServe(g.doc, c.doc, clock + d)
    /\ step' = "call"
    /\ UNCHANGED <<fn, apiKey, cache, lastFresh>>
    /\ UNCHANGED <<inv, browser>>

(***************************************************************************)
(* api/etf-flows : SoSoValue flows, mock data without an API key.          *)
(***************************************************************************)
getMockData(t) ==
    [yesterday |-> [amount |-> 438, date |-> "Yesterday"],
     week |-> <<[day |-> "Mon", amount |-> 215], [day |-> "Tue", amount |-> 380],
                [day |-> "Wed", amount |-> -120], [day |-> "Thu", amount |-> 290],
                [day |-> "Fri", amount |-> 438]>>,
     insight |-> "Third consecutive day of net inflows",
     source |-> "mock",
     updated |-> toISOString(t)]

\* SoSoValue flows: document r reports a net inflow of r * 100e6 USD and no
\* history
SoSoValueDoc(r) == [dailyNetInflow |-> 100 * r, historicalFlows |-> <<>>]

\* the transformed answer (amounts in 1e6 USD); with an empty history the
\* week is the mock week and the insight is decided by yesterday's inflow
transformSoSoValueData(r, t) ==
    LET data == SoSoValueDoc(r)
        yesterday == data.dailyNetInflow
        week == data.historicalFlows
    IN [yesterday |-> [amount |-> yesterday, date |-> "Yesterday"],
        week |-> IF Len(week) > 0 THEN week ELSE getMockData(t).week,
        insight |-> IF yesterday > 0
                    THEN "Significant institutional buying yesterday"
                    ELSE "Mixed signals from institutional flows",
        source |-> "sosovalue",
        updated |-> toISOString(t)]

\* Failure surfaced as an error status
EtfServeMockError(t) ==
    Response(500, [error |-> "ETF Flows API error", source |-> "error",
                   updated |-> toISOString(t)])

\* res.status(200).json(getMockData()): without a key, on a non-OK answer
\* and in the catch block
EtfServeMock(t) == Response(200, getMockData(t))

EtfFlowsHandler ==
    /\ fn = "etf"
    /\ IF ~apiKey
       THEN /\ res' = EtfServeMock(clock)
            /\ reqs' = <<>>
            /\ UNCHANGED <<clock, ticks>>
       ELSE \E r \in Outcome, d \in FetchDurations :
            /\ CanTake(d)
            /\ Elapse(d)
            /\ reqs' = <<Request("flows", r # Failed, r)>>
            /\ res' = IF r = Failed
                      THEN EtfServeMock(clock + d)
                      ELSE Response(200, transformSoSoValueData(r, clock + d))
    /\ step' = "call"
    /\ UNCHANGED <<fn, apiKey, cache, lastFresh>>
    /\ UNCHANGED <<inv, browser>>

(***************************************************************************)
(* api/breakdown : the podcast feed.                                       *)
(***************************************************************************)
\* The feed text is a sequence of elements.  An element <tag attr="val">text
\* </tag> is a record; cdata says that the text is wrapped in <![CDATA[ ]]>,
\* selfClosing that the element is written <tag attr="val"/>.  The literals
\* <item> and </item> are elements of their own.
Elem(tag, text) ==
    [tag |-> tag, text |-> text, cdata |-> FALSE, attr |-> "", val |-> "",
     selfClosing |-> FALSE]
CData(tag, text) ==
    [tag |-> tag, text |-> text, cdata |-> TRUE, attr |-> "", val |-> "",
     selfClosing |-> FALSE]
AttrElem(tag, attr, val) ==
    [tag |-> tag, text |-> "", cdata |-> FALSE, attr |-> attr, val |-> val,
     selfClosing |-> TRUE]
ItemOpen == Elem("<item>", "")
ItemClose == Elem("</item>", "")

\* null as returned by a failed match (no feed text equals it)
NoMatch == "<null>"

\* a || b on strings and null
Or(a, b) == IF a = NoMatch \/ a = "" THEN b ELSE a

\* String.prototype.trim on the texts of the model: "  " is the only text
\* with surrounding white space
trim(text) == IF text = "  " THEN "" ELSE text

\* index of the first element of xml in the set idx, 0 if there is none
First(idx) == IF idx = {} THEN 0 ELSE CHOOSE i \in idx : \A j \in idx : i <= j

\* xml.split('<item>')[0]
SplitItem0(xml) ==
    LET open == First({i \in 1..Len(xml) : xml[i] = ItemOpen})
    IN IF open = 0 THEN xml ELSE SubSeq(xml, 1, open - 1)

\* xml.split('<item>').slice(1), each piece cut at its first '</item>'
RECURSIVE ItemContents(_)
ItemContents(xml) ==
    LET open == First({i \in 1..Len(xml) : xml[i] = ItemOpen})
    IN IF open = 0 THEN <<>>
       ELSE LET rest == SubSeq(xml, open + 1, Len(xml))
                piece == SplitItem0(rest)
                endIndex == First({i \in 1..Len(piece) : piece[i] = ItemClose})
                itemContent == IF endIndex > 0 THEN SubSeq(piece, 1, endIndex - 1)
                               ELSE piece
            IN <<itemContent>> \o ItemContents(rest)

\* the CDATA form is tried first over the whole content, then the plain form
extractTag(xml, tagName, fromChannel) ==
    LET searchContent == IF fromChannel THEN SplitItem0(xml) ELSE xml
        cdataMatch == First({i \in 1..Len(searchContent) :
                        /\ searchContent[i].tag = tagName
                        /\ ~searchContent[i].selfClosing
                        /\ searchContent[i].cdata})
        match == First({i \in 1..Len(searchContent) :
                        /\ searchContent[i].tag = tagName
                        /\ ~searchContent[i].selfClosing
                        /\ ~searchContent[i].cdata})
    IN IF cdataMatch > 0 THEN trim(searchContent[cdataMatch].text)
       ELSE IF match > 0 THEN trim(searchContent[match].text)
       ELSE NoMatch

\* the function has three parameters: it searches all of xml
extractAttribute(xml, tagName, attrName) ==
    LET match == First({i \in 1..Len(xml) :
                        /\ xml[i].tag = tagName /\ xml[i].attr = attrName})
    IN IF match > 0 THEN xml[match].val ELSE NoMatch

DefaultImage ==
    "https://megaphone.imgix.net/podcasts/bcb63e62-d56f-11eb-9e47-43b3c17dbba3/image/The_Breakdown_Show_Art.jpg"

\* the call extractAttribute(xml, 'itunes:image', 'href', true) passes a
\* fourth argument that extractAttribute has no parameter for
parseShowMetadata(xml) ==
    [title |-> Or(extractTag(xml, "title", TRUE), "The Breakdown"),
     description |-> Or(extractTag(xml, "description", TRUE), ""),
     image |-> Or(extractAttribute(xml, "itunes:image", "href"),
                  Or(extractTag(xml, "url", TRUE), DefaultImage)),
     author |-> Or(extractTag(xml, "itunes:author", TRUE), "NLW")]

\* the episode of one item: title, audio and image (the model's items carry
\* no pubDate, duration or guid); null when the item has no enclosure url
Episode(itemContent) ==
    [title |-> Or(extractTag(itemContent, "title", FALSE), "Untitled Episode"),
     audioUrl |-> extractAttribute(itemContent, "enclosure", "url"),
     imageUrl |-> extractAttribute(itemContent, "itunes:image", "href")]

RECURSIVE Episodes(_)
Episodes(items) ==
    IF items = <<>> THEN <<>>
    ELSE LET e == Episode(Head(items))
         IN (IF Or(e.audioUrl, "") # "" THEN <<e>> ELSE <<>>)
                \o Episodes(Tail(items))

parseRSS(xml) == Episodes(ItemContents(xml))

\* episodes.slice(0, 5)
Slice5(episodes) == SubSeq(episodes, 1, IF Len(episodes) < 5 THEN Len(episodes) ELSE 5)

\* Feeds the upstream answers with: what precedes the first item, and the
\* items
ChannelParts ==
    {<<>>,
     <<Elem("title", "The Breakdown Daily"), Elem("description", "About the show"),
       AttrElem("itunes:image", "href", "show.jpg"), Elem("url", "rss.png"),
       Elem("itunes:author", "Host")>>,
     <<Elem("title", "Plain title"), CData("title", "The Breakdown Daily"),
       Elem("description", "About the show"), Elem("url", "rss.png")>>,
     <<Elem("title", "  "), Elem("itunes:author", "Host")>>,
     <<Elem("title", "The Breakdown Daily"), Elem("description", "About the show"),
       Elem("itunes:author", "Host")>>}

FullItem(n) ==
    <<ItemOpen, Elem("title", "Episode"), Elem("description", "Notes"),
      Elem("itunes:author", "Guest"), Elem("url", "item.png"),
      AttrElem("itunes:image", "href", "episode.jpg"),
      AttrElem("enclosure", "url", n), ItemClose>>

ItemParts ==
    {<<>>,
     FullItem("one.mp3"),
     <<ItemOpen, Elem("title", "Episode"), AttrElem("enclosure", "url", "one.mp3"),
       ItemClose>>,
     <<ItemOpen, Elem("title", "Episode"),
       AttrElem("itunes:image", "href", "episode.jpg"), ItemClose>>,
     FullItem("one.mp3") \o
        <<ItemOpen, CData("title", "Second"), AttrElem("enclosure", "url", "two.mp3")>>}

Feeds == {c \o i : c \in ChannelParts, i \in ItemParts}

BreakdownHandler ==
    /\ fn = "podcast"
    /\ \E ans \in {Down} \cup {Doc(xml) : xml \in Feeds}, d \in FetchDurations :
            /\ CanTake(d)
            /\ Elapse(d)
            /\ reqs' = <<Request("rss", ans # Down, ans)>>
            /\ res' = IF ans = Down
                      THEN Response(500, [success |-> FALSE,
                                          error |-> "Failed to fetch podcast feed",
                                          lastUpdated |-> toISOString(clock + d)])
                      ELSE Response(200, [success |-> TRUE,
                                          lastUpdated |-> toISOString(clock + d),
                                          show |-> parseShowMetadata(ans.doc),
                                          episodes |-> Slice5(parseRSS(ans.doc)),
                                          latest |-> 0])
    /\ step' = "call"
    /\ UNCHANGED <<fn, apiKey, cache, lastFresh>>
    /\ UNCHANGED <<inv, browser>>

(***************************************************************************)
(* The instance.                                                           *)
(***************************************************************************)
NoResponse == Response(0, Null)

\* personal.js: let state = {...}.  A coin of userCoins is [id, weight,
\* segment]; its symbol and name are those of the available coin with that id.
\* editingCoin holds the id of the coin object it refers to, NoCoin for null.
\* coinData and marketChange feed only the chart and are left out.
NoCoin == ""
InitialState ==
    [userCoins |-> <<>>, availableCoins |-> <<>>, period |-> 30,
     editingCoin |-> NoCoin]

\* localStorage.getItem(CONFIG.storageKey): null, or the string stored (the
\* sequence of its tokens)
NoItem == [has |-> FALSE, item |-> <<>>]
Item(tokens) == [has |-> TRUE, item |-> tokens]

\* the document while the script loads: no handler is installed yet.
\* settings, edit: the modal has class active; options: ids of the buttons of
\* #available-coins that carry a click handler; chips, cards: ids of the
\* rendered chips and coin cards; coinsSection: #coins-section is displayed;
\* search: value of #coin-search; weight, segment: the active buttons of the
\* edit-coin modal
LoadingDocument ==
    [readyState |-> "loading", settings |-> FALSE, edit |-> FALSE,
     options |-> {}, chips |-> {}, cards |-> {}, coinsSection |-> FALSE,
     search |-> <<>>, weight |-> "", segment |-> ""]

\* app.js: CONFIG.defaultRegion, and the page before a brief is rendered
defaultRegion == "americas"
NothingRendered == [headline |-> "", fulcrum |-> ""]

\* the pages before anything is rendered
PageInit ==
    /\ briefData = Null
    /\ totalMarket = <<>>
    /\ state = InitialState
    /\ localStorage = NoItem
    /\ document = LoadingDocument
    /\ events = 0
    /\ currentRegion = defaultRegion
    /\ loads = <<>>
    /\ rendered = NothingRendered

InitCache(f) ==
    IF f = "personal"
    THEN [data |-> Null, timestamp |-> 0, date |-> NoDate]
    ELSE [data |-> Null, timestamp |-> 0]

Init ==
    /\ fn \in Functions
    /\ apiKey \in (IF fn = "etf" THEN BOOLEAN ELSE {FALSE})
    /\ clock \in {StartTime(day) : day \in StartDays(fn)}
    /\ ticks = 0
    /\ cache = InitCache(fn)
    /\ res = NoResponse
    /\ reqs = <<>>
    /\ step = "boot"
    /\ lastFresh = Null
    /\ inv = <<>>
    /\ PageInit

Next ==
    \/ Advance
    \/ MarketCacheHandler
    \/ CoinsCacheHandler
    \/ PersonalCacheHandler
    \/ DailyMetricHandler
    \/ MarketMoodHandler
    \/ EtfFlowsHandler
    \/ BreakdownHandler

Spec == Init /\ [][Next]_vars

TypeOK ==
    /\ fn \in Functions
    /\ apiKey \in BOOLEAN
    /\ clock \in Nat
    /\ ticks \in 0..MaxTicks
    /\ res.status \in {0, 200, 500}
    /\ Len(reqs) <= 2
    /\ step \in {"boot", "tick", "call"}

(***************************************************************************)
(* Overlapping invocations of one cached function.  The handler runs up to *)
(* its await in one step (InvocationBegin) and from the settling of its    *)
(* fetch to its response in another (InvocationFinish); between the two,   *)
(* other invocations of the same instance run and time passes.  The slot   *)
(* is the module variable `cache`, shared by the invocations; `now` and    *)
(* `today` are locals of each invocation.                                  *)
(***************************************************************************)
MaxInvocations == 2

Invocations == 1..MaxInvocations

\* an invocation that has not started, and one that has returned (its
\* locals are gone)
Idle == [pc |-> "idle", now |-> 0, today |-> NoDate]
Done == [pc |-> "done", now |-> 0, today |-> NoDate]

IsFresh(f, c, now, today) ==
    CASE f = "market"   -> MarketIsFresh(c, now)
      [] f = "coins"    -> CoinsIsFresh(c, now)
      [] f = "personal" -> PersonalIsFresh(c, now, today)

ServeCached(f, c, now) ==
    CASE f = "market"   -> MarketServeCached(c, now)
      [] f = "coins"    -> CoinsServeCached(c, now)
      [] f = "personal" -> PersonalServeCached(c, now)

Requests(f, p, g) ==
    CASE f = "market"   -> MarketRequests(p, g)
      [] f = "coins"    -> CoinsRequests(p)
      [] f = "personal" -> PersonalRequests(p, g)

FetchFails(f, p, g) ==
    CASE f = "market"   -> MarketFetchFails(p, g)
      [] f = "coins"    -> p = Failed
      [] f = "personal" -> PersonalFetchFails(p, g)

FreshData(f, p, g, now, today, doneAt) ==
    CASE f = "market"   -> MarketFreshData(p, g, now, doneAt)
      [] f = "coins"    -> CoinsFreshData(p, now, doneAt)
      [] f = "personal" -> PersonalFreshData(p, g, now, today, doneAt)

\* A write that keeps the newer of the two timestamps
WriteKeepingNewest(f, c, freshData, now, today) ==
    IF f = "personal"
    THEN [data |-> freshData,
          timestamp |-> IF c.timestamp > now THEN c.timestamp ELSE now,
          date |-> today]
    ELSE [data |-> freshData,
          timestamp |-> IF c.timestamp > now THEN c.timestamp ELSE now]

\* cache = { ... }: one assignment, whatever the slot c held
Write(f, c, freshData, now, today) ==
    CASE f = "market"   -> MarketWrite(freshData, now)
      [] f = "coins"    -> CoinsWrite(freshData, now)
      [] f = "personal" -> PersonalWrite(freshData, now, today)

ServeFresh(f, freshData) ==
    CASE f = "market"   -> MarketServeFresh(freshData)
      [] f = "coins"    -> CoinsServeFresh(freshData)
      [] f = "personal" -> PersonalServeFresh(freshData)

Catch(f, c, now, doneAt) ==
    CASE f = "market"   -> MarketCatch(c, now, doneAt)
      [] f = "coins"    -> CoinsCatch(c, now)
      [] f = "personal" -> PersonalCatch(c, now)

\* the handler from its entry to its first await, or to its response when
\* the slot is fresh
InvocationBegin(i) ==
    /\ inv[i].pc = "idle"
    /\ LET now == clock
           today == Today(clock) IN
       IF IsFresh(fn, cache, now, today)
       THEN /\ res' = ServeCached(fn, cache, now)
            /\ reqs' = <<>>
            /\ inv' = [inv EXCEPT ![i] = Done]
       ELSE /\ inv' = [inv EXCEPT ![i] = [pc |-> "await", now |-> now,
                                          today |-> today]]
            /\ UNCHANGED <<res, reqs>>
    /\ step' = "begin"
    /\ UNCHANGED <<fn, apiKey, clock, ticks, cache, lastFresh>>
    /\ UNCHANGED browser

\* the handler from the settling of its fetch to its response
InvocationFinish(i) ==
    /\ inv[i].pc = "await"
    /\ LET now == inv[i].now
           today == inv[i].today IN
       \E p \in Outcome, g \in Outcome :
            /\ (p = Failed) <=> (g = Failed)   \* the upstream is up or down
            /\ reqs' = Requests(fn, p, g)
            /\ IF FetchFails(fn, p, g)
               THEN /\ res' = Catch(fn, cache, now, clock)
                    /\ UNCHANGED <<cache, lastFresh>>
               ELSE LET freshData == FreshData(fn, p, g, now, today, clock) IN
                    /\ cache' = Write(fn, cache, freshData, now, today)
                    /\ res' = ServeFresh(fn, freshData)
                    /\ lastFresh' = res'.body
    /\ inv' = [inv EXCEPT ![i] = Done]
    /\ step' = "finish"
    /\ UNCHANGED <<fn, apiKey, clock, ticks>>
    /\ UNCHANGED browser

RaceInit ==
    /\ fn \in {"market", "coins", "personal"}
    /\ apiKey = FALSE
    /\ clock = StartTime(0)
    /\ ticks = 0
    /\ cache = InitCache(fn)
    /\ res = NoResponse
    /\ reqs = <<>>
    /\ step = "boot"
    /\ lastFresh = Null
    /\ inv = [i \in Invocations |-> Idle]
    /\ PageInit

RaceNext ==
    \/ Advance
    \/ \E i \in Invocations : InvocationBegin(i)
    \/ \E i \in Invocations : InvocationFinish(i)

RaceSpec == RaceInit /\ [][RaceNext]_vars

(***************************************************************************)
(* app.js : the page.  The file holds two versions of the page script one  *)
(* after the other (lines 1-230 and 231-812), each with its own            *)
(* formatMarketCap; renderMorningBrief belongs to the first and            *)
(* renderMarketData to the second.  Only the element #total-market is      *)
(* modelled.                                                               *)
(*                                                                         *)
(* A market cap is the number hi * 1e9 + lo with 0 <= lo < 1e9.  A string  *)
(* is the sequence of its characters.                                      *)
(***************************************************************************)
E9 == 1000000000
Cap(hi, lo) == [hi |-> hi, lo |-> lo]

\* data.total_market_cap in the content files: values around the two
\* thresholds and around the rounding steps.  A value whose quotient by 1e12
\* lies exactly half way between two tenths is kept only where that quotient
\* is a binary fraction (x.25, x.75): elsewhere toFixed rounds the double
\* nearest to the quotient, which this arithmetic does not carry.
Caps ==
    {Cap(hi, lo) : hi \in {0, 1, 7, 999, 1000, 1049, 1050, 1250, 1500, 3449,
                           3451, 10000},
                   lo \in {0, 1, 500, 499999999, 500000000, 999999999}}
        \ {Cap(1050, 0)}

Digit(d) == <<"0", "1", "2", "3", "4", "5", "6", "7", "8", "9">>[d + 1]

\* the decimal digits of a natural number
RECURSIVE Digits(_)
Digits(n) == IF n < 10 THEN <<Digit(n)>> ELSE Digits(n \div 10) \o <<Digit(n % 10)>>

\* (cap / 1e12).toFixed(1): the nearest number of tenths, the larger of two
\* equally near ones
DivE12ToFixed1(cap) ==
    LET n == (cap.hi \div 100) + (IF cap.hi % 100 >= 50 THEN 1 ELSE 0)
    IN Digits(n \div 10) \o <<".">> \o <<Digit(n % 10)>>

\* (cap / 1e9).toFixed(0)
DivE9ToFixed0(cap) ==
    Digits(cap.hi + (IF 2 * cap.lo >= E9 THEN 1 ELSE 0))

\* `${cap}` for a whole number below 1e9
NumberToString(cap) == Digits(cap.lo)

\* Billions shown with one decimal
formatMarketCapDecimalB(cap) ==
    IF cap.hi >= 1000 THEN <<"$">> \o DivE12ToFixed1(cap) \o <<"T">>
    ELSE IF cap.hi >= 1
    THEN <<"$">> \o Digits(cap.hi) \o <<".">> \o <<Digit(cap.lo \div 100000000)>>
            \o <<"B">>
    ELSE <<"$">> \o NumberToString(cap)

\* the definition in the second script
formatMarketCap_534(cap) ==
    IF cap.hi >= 1000 THEN <<"$">> \o DivE12ToFixed1(cap) \o <<"T">>
    ELSE IF cap.hi >= 1 THEN <<"$">> \o DivE9ToFixed0(cap) \o <<"B">>
    ELSE <<"$">> \o NumberToString(cap)

\* the definition in the first script
formatMarketCap_215(cap) ==
    IF cap.hi >= 1000
    THEN <<"$">> \o DivE12ToFixed1(cap) \o <<"T">>
    ELSE IF cap.hi >= 1
         THEN <<"$">> \o DivE9ToFixed0(cap) \o <<"B">>
         ELSE <<"$">> \o NumberToString(cap)

\* if (data.total_market_cap): 0 is falsy
TruthyCap(cap) == cap # Cap(0, 0)

\* updateElement(id, content) and setText(id, text): the element exists, and
\* a non-empty string is truthy
setText(old, text) == IF text # <<>> THEN text ELSE old

renderMorningBrief ==
    /\ \E cap \in Caps :
        /\ briefData' = [total_market_cap |-> cap]
        /\ totalMarket' = IF TruthyCap(cap)
                          THEN setText(totalMarket, formatMarketCap_215(cap))
                          ELSE totalMarket
    /\ step' = "renderMorningBrief"
    /\ UNCHANGED <<server, personalPage, editionPage>>

renderMarketData ==
    /\ \E cap \in Caps :
        /\ briefData' = [total_market_cap |-> cap]
        /\ totalMarket' = IF TruthyCap(cap)
                          THEN setText(totalMarket, formatMarketCap_534(cap))
                          ELSE totalMarket
    /\ step' = "renderMarketData"
    /\ UNCHANGED <<server, personalPage, editionPage>>

\* the page after its script has loaded: no api function runs in it
NoServer ==
    /\ fn = "app"
    /\ apiKey = FALSE
    /\ clock = 0
    /\ ticks = 0
    /\ cache = Null
    /\ res = NoResponse
    /\ reqs = <<>>
    /\ lastFresh = Null
    /\ inv = <<>>

AppInit ==
    /\ NoServer
    /\ step = "boot"
    /\ PageInit

AppNext == renderMorningBrief \/ renderMarketData

AppSpec == AppInit /\ [][AppNext]_vars

(***************************************************************************)
(* personal.js : the Personal Edition page.  The user's coins live in      *)
(* state.userCoins and, once saved, in localStorage.  The two modals are   *)
(* overlays: while one has class active the page below it and the other    *)
(* modal take no clicks, and a modal without class active takes none.      *)
(***************************************************************************)
MaxEvents == 6
MaxAvailable == 6

maxCoinsFree == 5
maxCoinsPro == 10
isPro == FALSE

\* what /coins/markets answers with, after the mapping of lines 110-119; a
\* string of the page is the sequence of its characters
Market ==
    <<[id |-> "bitcoin", symbol |-> <<"B", "T", "C">>,
       name |-> <<"B", "i", "t", "c", "o", "i", "n">>],
      [id |-> "ethereum", symbol |-> <<"E", "T", "H">>,
       name |-> <<"E", "t", "h", "e", "r", "e", "u", "m">>],
      [id |-> "solana", symbol |-> <<"S", "O", "L">>,
       name |-> <<"S", "o", "l", "a", "n", "a">>],
      [id |-> "ripple", symbol |-> <<"X", "R", "P">>,
       name |-> <<"X", "R", "P">>],
      [id |-> "cardano", symbol |-> <<"A", "D", "A">>,
       name |-> <<"C", "a", "r", "d", "a", "n", "o">>],
      [id |-> "chainlink", symbol |-> <<"L", "I", "N", "K">>,
       name |-> <<"C", "h", "a", "i", "n", "l", "i", "n", "k">>],
      [id |-> "uniswap", symbol |-> <<"U", "N", "I">>,
       name |-> <<"U", "n", "i", "s", "w", "a", "p">>],
      [id |-> "dogecoin", symbol |-> <<"D", "O", "G", "E">>,
       name |-> <<"D", "o", "g", "e", "c", "o", "i", "n">>]>>
ApiCoins ==
    SubSeq(Market, 1, IF MaxAvailable < Len(Market) THEN MaxAvailable
                      ELSE Len(Market))

\* the three coins of useFallbackData
FallbackCoins == SubSeq(Market, 1, 3)

DEFAULT_SEGMENTS(coinId) ==
    CASE coinId = "bitcoin" -> "store_of_value"
      [] coinId \in {"ethereum", "solana", "cardano"} -> "infrastructure"
      [] coinId = "chainlink" -> "real_world"
      [] coinId = "uniswap" -> "defi"
      [] coinId = "ripple" -> "payments"
      [] OTHER -> "infrastructure"

\* the weight and segment buttons of the edit-coin modal that the model
\* presses
WeightButtons == {"core", "moderate"}
SegmentButtons == {"store_of_value", "defi"}

\* what the user types into #coin-search
Filters == {<<>>, <<"s", "o">>, <<"A", "D">>}

UpperCase ==
    <<"A", "B", "C", "D", "E", "F", "G", "H", "I", "J", "K", "L", "M", "N",
      "O", "P", "Q", "R", "S", "T", "U", "V", "W", "X", "Y", "Z">>
LowerCase ==
    <<"a", "b", "c", "d", "e", "f", "g", "h", "i", "j", "k", "l", "m", "n",
      "o", "p", "q", "r", "s", "t", "u", "v", "w", "x", "y", "z">>

toLowerCase(s) ==
    [i \in DOMAIN s |->
        IF \E k \in DOMAIN UpperCase : UpperCase[k] = s[i]
        THEN LowerCase[CHOOSE k \in DOMAIN UpperCase : UpperCase[k] = s[i]]
        ELSE s[i]]

\* s.includes(t)
includes(s, t) ==
    \E i \in 0..(Len(s) - Len(t)) : SubSeq(s, i + 1, i + Len(t)) = t

\* JSON.stringify(state.userCoins) and JSON.parse of such a string
RECURSIVE StringifyCoins(_)
StringifyCoins(coins) ==
    IF coins = <<>> THEN <<>>
    ELSE <<"{", Head(coins).id, Head(coins).weight, Head(coins).segment, "}">>
            \o StringifyCoins(Tail(coins))
JSONstringify(coins) == <<"[">> \o StringifyCoins(coins) \o <<"]">>
JSONparse(tokens) ==
    [i \in 1..((Len(tokens) - 2) \div 5) |->
        [id |-> tokens[5 * i - 2], weight |-> tokens[5 * i - 1],
         segment |-> tokens[5 * i]]]

UserCoin(coinId, weight) ==
    [id |-> coinId, weight |-> weight, segment |-> DEFAULT_SEGMENTS(coinId)]

\* what an earlier visit left in localStorage: nothing, or a saved list of
\* at most maxCoinsFree coins without a duplicate id
StoredLists ==
    {<<>>,
     <<UserCoin("ethereum", "core")>>,
     <<UserCoin("bitcoin", "core"), UserCoin("ethereum", "moderate"),
       UserCoin("solana", "moderate"), UserCoin("ripple", "small")>>,
     <<UserCoin("solana", "moderate"), UserCoin("bitcoin", "core"),
       UserCoin("cardano", "watching"), UserCoin("ethereum", "moderate"),
       UserCoin("ripple", "moderate")>>}
StoredItems == {NoItem} \cup {Item(JSONstringify(l)) : l \in StoredLists}

Ids(coins) == {coins[i].id : i \in DOMAIN coins}

\* coins.findIndex(c => c.id === coinId), counted from 1; 0 when not found
findIndex(coins, coinId) ==
    IF coinId \in Ids(coins)
    THEN CHOOSE i \in DOMAIN coins :
            /\ coins[i].id = coinId
            /\ \A j \in 1..(i - 1) : coins[j].id # coinId
    ELSE 0

\* coins.splice(i, 1)
splice1(coins, i) == SubSeq(coins, 1, i - 1) \o SubSeq(coins, i + 1, Len(coins))

\* a non-empty string is truthy
loadUserCoins(st, storage) ==
    LET saved == storage IN
    IF saved.has /\ saved.item # <<>>
    THEN [st EXCEPT !.userCoins = JSONparse(saved.item)]
    ELSE st

saveUserCoins(st) == Item(JSONstringify(st.userCoins))

\* render(): the coin cards are rebuilt only while there are coins
render(st, doc) ==
    LET hasCoins == Len(st.userCoins) > 0 IN
    [doc EXCEPT !.coinsSection = hasCoins,
                !.cards = IF hasCoins THEN Ids(st.userCoins) ELSE @]

\* the buttons of #available-coins that get a click handler, were the limit
\* not looked at
renderAvailableCoinsUnlimited(st, doc, filter) ==
    LET filtered == IF filter # <<>>
                    THEN SelectSeq(st.availableCoins,
                            LAMBDA c :
                                \/ includes(toLowerCase(c.name), toLowerCase(filter))
                                \/ includes(toLowerCase(c.symbol), toLowerCase(filter)))
                    ELSE st.availableCoins
    IN [doc EXCEPT !.options = Ids(filtered)]

renderAvailableCoins(st, doc, filter) ==
    LET max == IF isPro THEN maxCoinsPro ELSE maxCoinsFree
        atLimit == Len(st.userCoins) >= max
        filtered == IF filter # <<>>
                    THEN SelectSeq(st.availableCoins,
                            LAMBDA c :
                                \/ includes(toLowerCase(c.name), toLowerCase(filter))
                                \/ includes(toLowerCase(c.symbol), toLowerCase(filter)))
                    ELSE st.availableCoins
        isSelected(coin) == coin.id \in Ids(st.userCoins)
        disabled(coin) == ~isSelected(coin) /\ atLimit
    IN [doc EXCEPT !.options =
            {filtered[i].id : i \in {k \in DOMAIN filtered : ~disabled(filtered[k])}}]

renderSelectedCoins(st, doc) == [doc EXCEPT !.chips = Ids(st.userCoins)]

\* the changes of toggleCoinSelection to state (its three render calls are
\* in the action)
toggleCoinSelection(st, coinId) ==
    LET existing == findIndex(st.userCoins, coinId) IN
    IF existing >= 1
    THEN [st EXCEPT !.userCoins = splice1(@, existing)]
    ELSE IF coinId \notin Ids(st.availableCoins) THEN st
         ELSE [st EXCEPT !.userCoins = Append(@, UserCoin(coinId, "moderate"))]

removeCoin(st, coinId) ==
    LET idx == findIndex(st.userCoins, coinId) IN
    IF idx >= 1 THEN [st EXCEPT !.userCoins = splice1(@, idx)] ELSE st

closeEditCoinModal(st) == [st EXCEPT !.editingCoin = NoCoin]

Handled(name) ==
    /\ events < MaxEvents
    /\ events' = events + 1
    /\ step' = name
    /\ UNCHANGED <<server, appPage, editionPage>>

NoModal == ~document.settings /\ ~document.edit
Ready == document.readyState # "loading"

\* the listener of DOMContentLoaded; loadAvailableCoins runs up to its await
DOMContentLoaded ==
    /\ document.readyState = "loading"
    /\ state' = loadUserCoins(state, localStorage)
    /\ document' = [render(state', document) EXCEPT !.readyState = "fetching"]
    /\ UNCHANGED localStorage
    /\ Handled("DOMContentLoaded")

\* loadAvailableCoins from its await on: the answer of the api, or the catch
loadAvailableCoins ==
    /\ document.readyState = "fetching"
    /\ \E ok \in BOOLEAN :
        IF ok
        THEN /\ state' = [state EXCEPT !.availableCoins = ApiCoins]
             /\ document' =
                    [render(state', renderAvailableCoins(state', document, <<>>))
                        EXCEPT !.readyState = "complete"]
        ELSE /\ state' = [state EXCEPT !.availableCoins = FallbackCoins]
             /\ document' = [document EXCEPT !.readyState = "complete"]
    /\ UNCHANGED localStorage
    /\ Handled("loadAvailableCoins")

\* #open-settings and #empty-add-coins
openSettings ==
    /\ Ready /\ NoModal
    /\ document' =
            [renderAvailableCoins(state, renderSelectedCoins(state, document), <<>>)
                EXCEPT !.settings = TRUE]
    /\ UNCHANGED <<state, localStorage>>
    /\ Handled("openSettings")

closeSettings ==
    /\ document.settings
    /\ document' = [document EXCEPT !.settings = FALSE]
    /\ UNCHANGED <<state, localStorage>>
    /\ Handled("closeSettings")

cancelSettings ==
    /\ document.settings
    /\ state' = loadUserCoins(state, localStorage)
    /\ document' = [document EXCEPT !.settings = FALSE]
    /\ UNCHANGED localStorage
    /\ Handled("cancelSettings")

saveSettings ==
    /\ document.settings
    /\ localStorage' = saveUserCoins(state)
    /\ document' = render(state, [document EXCEPT !.settings = FALSE])
    /\ UNCHANGED state
    /\ Handled("saveSettings")

searchInput ==
    /\ document.settings
    /\ \E value \in Filters :
        document' = renderAvailableCoins(state,
                        [document EXCEPT !.search = value], value)
    /\ UNCHANGED <<state, localStorage>>
    /\ Handled("searchInput")

\* a button of #available-coins that carries a handler
optionClick ==
    /\ document.settings
    /\ \E coinId \in document.options :
        /\ state' = toggleCoinSelection(state, coinId)
        /\ document' =
            IF findIndex(state.userCoins, coinId) = 0
                    /\ coinId \notin Ids(state.availableCoins)
            THEN document
            ELSE renderAvailableCoins(state',
                    renderSelectedCoins(state', document), document.search)
    /\ UNCHANGED localStorage
    /\ Handled("optionClick")

chipClick ==
    /\ document.settings
    /\ \E coinId \in document.chips :
        /\ state' = removeCoin(state, coinId)
        /\ document' = renderAvailableCoins(state',
                            renderSelectedCoins(state', document), document.search)
    /\ UNCHANGED localStorage
    /\ Handled("chipClick")

\* a coin card of the page: openEditCoinModal when the coin is still there
cardClick ==
    /\ Ready /\ NoModal /\ document.coinsSection
    /\ \E coinId \in document.cards :
        LET i == findIndex(state.userCoins, coinId) IN
        IF i >= 1
        THEN /\ state' = [state EXCEPT !.editingCoin = coinId]
             /\ document' = [document EXCEPT
                                !.weight = state.userCoins[i].weight,
                                !.segment = state.userCoins[i].segment,
                                !.edit = TRUE]
        ELSE UNCHANGED <<state, document>>
    /\ UNCHANGED localStorage
    /\ Handled("cardClick")

weightClick ==
    /\ document.edit
    /\ \E w \in WeightButtons : document' = [document EXCEPT !.weight = w]
    /\ UNCHANGED <<state, localStorage>>
    /\ Handled("weightClick")

segmentClick ==
    /\ document.edit
    /\ \E s \in SegmentButtons : document' = [document EXCEPT !.segment = s]
    /\ UNCHANGED <<state, localStorage>>
    /\ Handled("segmentClick")

closeEditCoin ==
    /\ document.edit
    /\ state' = closeEditCoinModal(state)
    /\ document' = [document EXCEPT !.edit = FALSE]
    /\ UNCHANGED localStorage
    /\ Handled("closeEditCoin")

\* a click on the overlay of the active modal: editingCoin stays
overlayClick ==
    /\ \E overlay \in {"settings", "edit"} :
        /\ document[overlay]
        /\ document' = [document EXCEPT ![overlay] = FALSE]
    /\ UNCHANGED <<state, localStorage>>
    /\ Handled("overlayClick")

\* the coin object editingCoin refers to is the entry of userCoins it was
\* opened on: nothing changes userCoins while the modal is active
saveEditCoin ==
    /\ document.edit
    /\ IF state.editingCoin = NoCoin
       THEN UNCHANGED <<state, localStorage, document>>
       ELSE LET i == findIndex(state.userCoins, state.editingCoin)
                edited == IF i >= 1
                          THEN [state.userCoins EXCEPT
                                    ![i].weight = document.weight,
                                    ![i].segment = document.segment]
                          ELSE state.userCoins
                st == [state EXCEPT !.userCoins = edited]
            IN /\ localStorage' = saveUserCoins(st)
               /\ state' = closeEditCoinModal(st)
               /\ document' = render(state', [document EXCEPT !.edit = FALSE])
    /\ Handled("saveEditCoin")

removeEditCoin ==
    /\ document.edit
    /\ IF state.editingCoin = NoCoin
       THEN UNCHANGED <<state, localStorage, document>>
       ELSE LET st == removeCoin(state, state.editingCoin)
            IN /\ localStorage' = saveUserCoins(st)
               /\ state' = closeEditCoinModal(st)
               /\ document' = render(state', [document EXCEPT !.edit = FALSE])
    /\ Handled("removeEditCoin")

periodClick ==
    /\ Ready /\ NoModal
    /\ \E p \in {7, 30} :
        /\ state' = [state EXCEPT !.period = p]
        /\ document' = render(state', document)
    /\ UNCHANGED localStorage
    /\ Handled("periodClick")

PersonalInit ==
    /\ fn = "personal.js"
    /\ apiKey = FALSE
    /\ clock = 0
    /\ ticks = 0
    /\ cache = Null
    /\ res = NoResponse
    /\ reqs = <<>>
    /\ lastFresh = Null
    /\ inv = <<>>
    /\ step = "boot"
    /\ briefData = Null
    /\ totalMarket = <<>>
    /\ state = InitialState
    /\ localStorage \in StoredItems
    /\ document = LoadingDocument
    /\ events = 0
    /\ currentRegion = defaultRegion
    /\ loads = <<>>
    /\ rendered = NothingRendered

PersonalNext ==
    \/ DOMContentLoaded
    \/ loadAvailableCoins
    \/ openSettings
    \/ closeSettings
    \/ cancelSettings
    \/ saveSettings
    \/ searchInput
    \/ optionClick
    \/ chipClick
    \/ cardClick
    \/ weightClick
    \/ segmentClick
    \/ closeEditCoin
    \/ overlayClick
    \/ saveEditCoin
    \/ removeEditCoin
    \/ periodClick

PersonalSpec == PersonalInit /\ [][PersonalNext]_vars

(***************************************************************************)
(* app.js : switching the edition.  Both scripts of the file set           *)
(* currentRegion and call loadContent(region) when an edition button is    *)
(* clicked; loadContent awaits the morning brief of the region, renders    *)
(* it, then awaits the week ahead and renders it.  A call of loadContent   *)
(* is the record [region, pc, failed]: pc is the await it stands at.  fn   *)
(* tells which of the two scripts the page runs; only the first one        *)
(* starts the auto-refresh, only the second one keeps briefData.           *)
(***************************************************************************)
MaxLoads == 3

Regions == {"americas", "emea", "apac"}
Scripts == {"app.js:1", "app.js:231"}

\* ./content/<region>/morning.json and ./content/<region>/week-ahead.json
Brief(region) == [headline |-> region, total_market_cap |-> Cap(3451, 0)]
WeekAhead(region) == [fulcrum |-> region]

\* loadContent(region) up to its first await
Load(region) == [region |-> region, pc |-> "morning", failed |-> FALSE]

\* the listener of DOMContentLoaded: loadContent(currentRegion)
appLoaded ==
    /\ fn \in Scripts
    /\ step = "boot"
    /\ loads' = <<Load(currentRegion)>>
    /\ step' = "appLoaded"
    /\ UNCHANGED <<currentRegion, rendered>>
    /\ UNCHANGED <<server, appPage, personalPage>>

\* the click listener of an edition button
selectEdition ==
    /\ fn \in Scripts
    /\ step # "boot"
    /\ Len(loads) < MaxLoads
    /\ \E region \in Regions :
        /\ currentRegion' = region
        /\ loads' = Append(loads, Load(region))
    /\ step' = "selectEdition"
    /\ UNCHANGED rendered
    /\ UNCHANGED <<server, appPage, personalPage>>

\* the callback of setInterval in startAutoRefresh
autoRefresh ==
    /\ fn = "app.js:1"
    /\ step # "boot"
    /\ Len(loads) < MaxLoads
    /\ loads' = Append(loads, Load(currentRegion))
    /\ step' = "autoRefresh"
    /\ UNCHANGED <<currentRegion, rendered>>
    /\ UNCHANGED <<server, appPage, personalPage>>

\* the awaited fetch of morning.json settles: not ok throws, and the catch
\* ends the call
morningResponse ==
    /\ \E i \in DOMAIN loads, ok \in BOOLEAN :
        /\ loads[i].pc = "morning"
        /\ loads' = [loads EXCEPT ![i] =
                        IF ok THEN [@ EXCEPT !.pc = "morning.json"]
                        ELSE [@ EXCEPT !.pc = "done", !.failed = TRUE]]
    /\ step' = "morningResponse"
    /\ UNCHANGED <<currentRegion, rendered>>
    /\ UNCHANGED <<server, appPage, personalPage>>

\* the body of morning.json arrives: the brief is kept and rendered, and the
\* week ahead of the same region is requested
morningBody ==
    /\ \E i \in DOMAIN loads :
        /\ loads[i].pc = "morning.json"
        /\ LET data == Brief(loads[i].region) IN
            /\ briefData' = data
            /\ totalMarket' =
                    IF TruthyCap(data.total_market_cap)
                    THEN setText(totalMarket,
                            IF fn = "app.js:1"
                            THEN formatMarketCap_215(data.total_market_cap)
                            ELSE formatMarketCap_534(data.total_market_cap))
                    ELSE totalMarket
            /\ rendered' = [rendered EXCEPT !.headline = data.headline]
        /\ loads' = [loads EXCEPT ![i].pc = "week"]
    /\ step' = "morningBody"
    /\ UNCHANGED currentRegion
    /\ UNCHANGED <<server, personalPage>>

\* the awaited fetch of week-ahead.json settles
weekResponse ==
    /\ \E i \in DOMAIN loads, ok \in BOOLEAN :
        /\ loads[i].pc = "week"
        /\ loads' = [loads EXCEPT ![i] =
                        IF ok THEN [@ EXCEPT !.pc = "week.json"]
                        ELSE [@ EXCEPT !.pc = "done", !.failed = TRUE]]
    /\ step' = "weekResponse"
    /\ UNCHANGED <<currentRegion, rendered>>
    /\ UNCHANGED <<server, appPage, personalPage>>

\* the body of week-ahead.json arrives: renderWeekAhead
weekBody ==
    /\ \E i \in DOMAIN loads :
        /\ loads[i].pc = "week.json"
        /\ rendered' = [rendered EXCEPT
                            !.fulcrum = WeekAhead(loads[i].region).fulcrum]
        /\ loads' = [loads EXCEPT ![i].pc = "done"]
    /\ step' = "weekBody"
    /\ UNCHANGED currentRegion
    /\ UNCHANGED <<server, appPage, personalPage>>

EditionInit ==
    /\ fn \in Scripts
    /\ apiKey = FALSE
    /\ clock = 0
    /\ ticks = 0
    /\ cache = Null
    /\ res = NoResponse
    /\ reqs = <<>>
    /\ lastFresh = Null
    /\ inv = <<>>
    /\ step = "boot"
    /\ PageInit

EditionNext ==
    \/ appLoaded
    \/ selectEdition
    \/ autoRefresh
    \/ morningResponse
    \/ morningBody
    \/ weekResponse
    \/ weekBody

EditionSpec == EditionInit /\ [][EditionNext]_vars

(***************************************************************************)
(* Vocabulary of the properties.                                           *)
(***************************************************************************)
CachedFns == {"market", "coins", "personal"}

Has(body, k) == k \in DOMAIN body

\* some upstream request of the invocation failed
FetchFailed(rq) == \E i \in 1..Len(rq) : ~rq[i].ok

\* body carries every field of payload, except those in `but`, unchanged
SamePayload(body, payload, but) ==
    \A k \in (DOMAIN payload) \ but : Has(body, k) /\ body[k] = payload[k]

IsStale(r) == Has(r.body, "stale") /\ r.body.stale = TRUE

IsCachedHit(r) ==
    /\ r.status = 200
    /\ Has(r.body, "cached") /\ r.body.cached = TRUE
    /\ ~Has(r.body, "stale")

IsFallback(r) == Has(r.body, "fallback")

\* the requests one Fetch-and-Transform attempt of function f makes
AttemptOf(f) ==
    CASE f = "market"   -> {"price", "global"}
      [] f = "coins"    -> {"coins"}
      [] f = "personal" -> {"coins", "global"}

\* rq is exactly one attempt: each of its requests issued once
OneAttempt(f, rq) ==
    /\ Len(rq) = Cardinality(AttemptOf(f))
    /\ {rq[i].req : i \in 1..Len(rq)} = AttemptOf(f)

(***************************************************************************)
(* C1  Stale serving.  For the market, top-100 and personal functions:     *)
(* once a call has fetched successfully, a call whose upstream fetch fails *)
(* answers 200 with the last successfully fetched payload, cached = true,  *)
(* stale = true and an error annotation -- never the hard fallback and     *)
(* never an error status.                                                  *)
(***************************************************************************)
C1_StaleServing ==
    [][(step' = "call" /\ fn \in CachedFns /\ lastFresh # Null /\ FetchFailed(reqs'))
        => /\ res'.status = 200
           /\ SamePayload(res'.body, lastFresh, {"cached"})
           /\ res'.body.cached = TRUE
           /\ IsStale(res')
           /\ Has(res'.body, "error")
           /\ ~IsFallback(res')]_vars

\* the scenario of the specification: success at t, failure at t + 301 s
C1_Witness ==
    /\ fn = "market" /\ step = "call"
    /\ FetchFailed(reqs)
    /\ IsStale(res)
    /\ res.body.cacheAge = 301
    /\ clock - lastFresh.updatedTimestamp = 301000

(***************************************************************************)
(* C2  Cache hit.  For the market function (window 5 min) and the top-100  *)
(* function (window 15 min): a call arriving less than the window after a  *)
(* call that fetched successfully makes no upstream request and answers    *)
(* 200, cached = true, with exactly the payload of that call's response;   *)
(* only cached and cacheAge differ.                                        *)
(***************************************************************************)
C2_CacheHit ==
    [][(/\ step' = "call" /\ fn \in {"market", "coins"} /\ lastFresh # Null
        /\ clock - lastFresh.updatedTimestamp <
             (IF fn = "market" THEN 5 * 60 * 1000 ELSE 15 * 60 * 1000))
        => /\ reqs' = <<>>
           /\ res'.status = 200
           /\ res'.body.cached = TRUE
           /\ SamePayload(res'.body, lastFresh, {"cached"})
           /\ DOMAIN res'.body = DOMAIN lastFresh \cup {"cacheAge"}]_vars

\* a hit one millisecond before the 15 minute window ends
C2_Witness ==
    /\ fn = "coins" /\ step = "call"
    /\ reqs = <<>>
    /\ IsCachedHit(res)
    /\ clock - lastFresh.updatedTimestamp = 899999

(***************************************************************************)
(* C3  Hard fallback of the market function.  With the slot absent and the *)
(* upstream failing the answer is 200 with the hard-coded fallback payload *)
(* and the slot stays absent.                                              *)
(***************************************************************************)
\* as claimed: marked source = "fallback", and equal to every other such
\* response apart from `updated`
C3_AsClaimed ==
    [][(step' = "call" /\ fn = "market" /\ cache.data = Null /\ FetchFailed(reqs'))
        => /\ res'.status = 200
           /\ Has(res'.body, "source") /\ res'.body.source = "fallback"
           /\ (IsFallback(res) => SamePayload(res'.body, res.body, {"updated"}))
           /\ cache'.data = Null]_vars

\* as the code has it: marked fallback = true (and cached = false), equal to
\* every other such response apart from `updated` and `updatedTimestamp`
C3_HardFallback ==
    [][(step' = "call" /\ fn = "market" /\ cache.data = Null /\ FetchFailed(reqs'))
        => /\ res'.status = 200
           /\ IsFallback(res') /\ res'.body.fallback = TRUE
           /\ res'.body.cached = FALSE
           /\ res'.body.btc.price = 97500
           /\ res'.body.eth.price = 3650
           /\ res'.body.market.activeCryptos = 10000
           /\ (IsFallback(res) =>
                 /\ DOMAIN res'.body = DOMAIN res.body
                 /\ SamePayload(res'.body, res.body, {"updated", "updatedTimestamp"}))
           /\ cache'.data = Null]_vars

\* two fallback answers at different times
C3_Witness ==
    /\ fn = "market" /\ step = "call"
    /\ cache.data = Null
    /\ IsFallback(res)
    /\ res.body.updatedTimestamp > StartTime(0)

(***************************************************************************)
(* C4  Which handlers can answer 5xx.                                      *)
(***************************************************************************)
\* as claimed: only the top-100 function ever answers something else than 200
C4_AsClaimed == (step = "call" /\ fn # "coins") => res.status = 200

\* as the code has it: the market, daily-metric, market-mood and ETF
\* functions always answer 200; the top-100 and personal functions answer
\* 500 exactly when the slot is absent and the fetch fails, the podcast
\* function exactly when its fetch fails
C4_ErrorStatus ==
    [][step' = "call"
        => /\ res'.status \in {200, 500}
           /\ res'.status = 500 <=>
                \/ fn \in {"coins", "personal"} /\ cache.data = Null /\ FetchFailed(reqs')
                \/ fn = "podcast" /\ FetchFailed(reqs')]_vars

\* an upstream failure of the market-mood function shows in the body only
C4_Witness ==
    /\ fn = "mood" /\ step = "call"
    /\ FetchFailed(reqs)
    /\ res.status = 200
    /\ res.body.success = FALSE

(***************************************************************************)
(* C5  Refresh on demand.  For the market, top-100 and personal functions  *)
(* a call arriving after the entry's window has elapsed makes exactly one  *)
(* Fetch-and-Transform attempt, without retry; a call arriving while the   *)
(* entry is fresh makes none.                                              *)
(***************************************************************************)
\* as claimed: fresh means now - fetchedAt < window, 24 h for personal
C5_AsClaimed ==
    [][(step' = "call" /\ fn \in CachedFns /\ cache.data # Null)
        => IF clock - cache.timestamp <
                (CASE fn = "market"   -> 5 * 60 * 1000
                   [] fn = "coins"    -> 15 * 60 * 1000
                   [] fn = "personal" -> 24 * 60 * 60 * 1000)
           THEN reqs' = <<>>
           ELSE OneAttempt(fn, reqs')]_vars

\* as the code has it: for personal, fresh means that the call arrives on
\* the UTC calendar day the entry was fetched on
C5_RefreshOnDemand ==
    [][(step' = "call" /\ fn \in CachedFns /\ cache.data # Null)
        => LET age == clock - cache.timestamp
               window == CASE fn = "market"   -> 5 * 60 * 1000
                           [] fn = "coins"    -> 15 * 60 * 1000
                           [] fn = "personal" -> 24 * 60 * 60 * 1000
               fresh == IF fn = "personal"
                        THEN clock \div MsPerDay = cache.timestamp \div MsPerDay
                        ELSE age < window
           IN /\ age >= window => OneAttempt(fn, reqs')
              /\ fresh => reqs' = <<>>
              /\ reqs' # <<>> => OneAttempt(fn, reqs')]_vars

\* a failed refresh of an entry older than its window, not retried
C5_Witness ==
    /\ fn = "personal" /\ step = "call"
    /\ lastFresh # Null
    /\ clock - lastFresh.updatedTimestamp >= 24 * 60 * 60 * 1000
    /\ FetchFailed(reqs)
    /\ Len(reqs) = 2

(***************************************************************************)
(* C6  Both succeed or the combined operation fails.  In the market and    *)
(* personal functions, when either of the two parallel upstream calls      *)
(* fails the slot is not written and the answer is the stale, fallback or  *)
(* error response; an answer with cached = false built from fresh data     *)
(* holds the results of both calls of this invocation.                     *)
(***************************************************************************)
C6_BothOrNothing ==
    [][(step' = "call" /\ fn \in {"market", "personal"})
        => /\ FetchFailed(reqs') =>
                /\ cache' = cache
                /\ IsStale(res') \/ IsFallback(res') \/ res'.status = 500
           /\ (res'.status = 200 /\ res'.body.cached = FALSE /\ ~IsFallback(res')) =>
                /\ Len(reqs') = 2
                /\ reqs'[1].ok /\ reqs'[2].ok
                /\ IF fn = "market"
                   THEN /\ res'.body.btc = fetchPrices(reqs'[1].ans).btc
                        /\ res'.body.eth = fetchPrices(reqs'[1].ans).eth
                        /\ res'.body.market = fetchGlobalData(reqs'[2].ans)
                   ELSE /\ res'.body.coins = fetchCoinsWithHistory(reqs'[1].ans)
                        /\ res'.body.market = fetchMarketHistory(reqs'[2].ans)]_vars

\* the price call succeeded, the global call failed, an old entry is served
C6_Witness ==
    /\ fn = "market" /\ step = "call"
    /\ Len(reqs) = 2 /\ reqs[1].ok /\ ~reqs[2].ok
    /\ IsStale(res)
    /\ cache.data # Null

(***************************************************************************)
(* C7  NoCacheNoFallback.  The top-100 function answers 500 exactly when   *)
(* its slot is absent and the fetch of the invocation fails; that answer   *)
(* has an error field, coins = [] and count = 0 and leaves the slot        *)
(* absent.  Every other answer is 200.                                     *)
(***************************************************************************)
C7_NoCacheNoFallback ==
    [][(step' = "call" /\ fn = "coins")
        => /\ res'.status = 500 <=> (cache.data = Null /\ FetchFailed(reqs'))
           /\ res'.status # 500 => res'.status = 200
           /\ res'.status = 500 =>
                /\ Has(res'.body, "error")
                /\ res'.body.coins = <<>>
                /\ res'.body.count = 0
                /\ cache'.data = Null]_vars

C7_Witness ==
    /\ fn = "coins" /\ step = "call"
    /\ res.status = 500
    /\ FetchFailed(reqs)
    /\ cache.data = Null

(***************************************************************************)
(* C8  Freshness of the personal function.                                 *)
(***************************************************************************)
\* as claimed: a call less than 24 hours after a successful one is served
\* from the cache, whatever the two call times
C8_AsClaimed ==
    [][(/\ step' = "call" /\ fn = "personal" /\ lastFresh # Null
        /\ clock - lastFresh.updatedTimestamp < 24 * 60 * 60 * 1000)
        => /\ reqs' = <<>>
           /\ res'.body.cached = TRUE
           /\ SamePayload(res'.body, lastFresh, {"cached"})]_vars

\* as the code has it: a call on the UTC calendar day of the successful call
\* is served from the cache with the identical payload and no fetch; a call
\* on a later day fetches again, also less than 24 hours later
C8_SameDayHit ==
    [][(step' = "call" /\ fn = "personal" /\ lastFresh # Null)
        => IF clock \div MsPerDay = lastFresh.updatedTimestamp \div MsPerDay
           THEN /\ reqs' = <<>>
                /\ IsCachedHit(res')
                /\ SamePayload(res'.body, lastFresh, {"cached"})
           ELSE OneAttempt("personal", reqs')]_vars

\* a hit late on the day of the fetch
C8_Witness ==
    /\ fn = "personal" /\ step = "call"
    /\ reqs = <<>>
    /\ IsCachedHit(res)
    /\ clock - lastFresh.updatedTimestamp = 299999

(***************************************************************************)
(* C9  Daily-metric cache.  After a call has fetched the day's metric      *)
(* successfully, every further call on the same UTC day is served from a   *)
(* cache entry: cached = true, the same payload, no upstream request.      *)
(***************************************************************************)
C9_DailyCache ==
    [][(/\ step' = "call" /\ fn = "daily"
        /\ res.status = 200 /\ Has(res.body, "source")
        /\ res.body.source # "fallback"
        /\ res.body.dayOfWeek = getUTCDay(clock)
        /\ res.body.updated[1] = clock \div MsPerDay)
        => /\ reqs' = <<>>
           /\ Has(res'.body, "cached") /\ res'.body.cached = TRUE
           /\ SamePayload(res'.body, res.body, {})]_vars

(***************************************************************************)
(* C10  Daily Metric Selector.  On every call the metric is selected from  *)
(* the UTC day of the week d of that call: 1 fear_greed, 2 btc_dominance,  *)
(* 3 funding_rates, 4 open_interest, 5, 6 and 0 stablecoin_supply; the     *)
(* metric field of the response, live or per-metric fallback, is that kind.*)
(***************************************************************************)
C10_Selector ==
    [][(step' = "call" /\ fn = "daily")
        => LET d == ((clock \div MsPerDay) + 4) % 7
               kind == <<"fear_greed", "btc_dominance", "funding_rates",
                         "open_interest", "stablecoin_supply",
                         "stablecoin_supply", "stablecoin_supply">>[IF d = 0 THEN 7 ELSE d]
           IN /\ res'.status = 200
              /\ res'.body.dayOfWeek = d
              /\ res'.body.metric = kind
              /\ Len(reqs') = 1 /\ reqs'[1].req = kind]_vars

\* a Sunday: the default branch of the switch
C10_Witness ==
    /\ fn = "daily" /\ step = "call"
    /\ res.body.dayOfWeek = 0
    /\ res.body.metric = "stablecoin_supply"
    /\ res.body.source = "coingecko"

(***************************************************************************)
(* C11: a live Fear & Greed response for an index value v in 0..100 is     *)
(* labelled bearish for v <= 20, cautious for 21..40, neutral for 41..60,  *)
(* optimistic for 61..80 and bullish for v >= 81; exactly one of these     *)
(* ranges holds v.                                                         *)
(***************************************************************************)
C11_Labels ==
    [bearish |-> 0..20, cautious |-> 21..40, neutral |-> 41..60,
     optimistic |-> 61..80, bullish |-> 81..100]

C11_FearGreedLabels ==
    [][(step' = "call" /\ fn = "daily" /\ reqs'[1].req = "fear_greed"
            /\ reqs'[1].ans.status = "ok")
        => LET v == reqs'[1].ans.doc.value
               labels == {l \in DOMAIN C11_Labels : v \in C11_Labels[l]}
           IN /\ v \in 0..100
              /\ Cardinality(labels) = 1
              /\ res'.body.numericValue = v
              /\ res'.body.interpretation \in labels]_vars

C11_Witness ==
    /\ step = "call" /\ fn = "daily" /\ reqs[1].req = "fear_greed"
    /\ reqs[1].ans.status = "ok" /\ reqs[1].ans.doc.value = 20
    /\ res.body.interpretation = "bearish"

(***************************************************************************)
(* C12: for an average 8-hour funding rate r the APR in the subtitle of a  *)
(* live funding response is r x 3 x 365 x 100 rounded to a whole percent   *)
(* (r = 0.0001, that is 100e-6, is shown as 11).                           *)
(***************************************************************************)
C12_AprAsClaimed ==
    [][(step' = "call" /\ fn = "daily" /\ reqs'[1].req = "funding_rates"
            /\ reqs'[1].ans.status = "ok")
        => LET r == FundingAvgRate(reqs'[1].ans.doc)
           IN /\ res'.body.numericValue = r
              /\ res'.body.subtitle.apr = RoundDiv(r * 3 * 365 * 100, 1000000)
              /\ (r = 100 => res'.body.subtitle.apr = 11)]_vars

(***************************************************************************)
(* C13: threshold boundaries of the five daily metrics.  The thresholds of *)
(* a metric in ascending order cut the values into buckets; as claimed,    *)
(* every threshold is the inclusive upper bound of the bucket below it.    *)
(* In the code that holds for four metrics, while a BTC dominance equal to *)
(* a threshold falls in the bucket above it.                               *)
(***************************************************************************)
C13_Thresholds ==
    [fear_greed        |-> <<20, 40, 60, 80>>,
     btc_dominance     |-> <<450, 500, 550>>,
     funding_rates     |-> <<-300, -100, 100, 300>>,
     open_interest     |-> <<150, 200>>,
     stablecoin_supply |-> <<-50, 50>>]

C13_Buckets ==
    [fear_greed        |-> <<"bearish", "cautious", "neutral", "optimistic", "bullish">>,
     btc_dominance     |-> <<"alt-season", "risk-on", "balanced", "risk-off">>,
     funding_rates     |-> <<"crowded-short", "bearish-bias", "neutral",
                             "bullish-bias", "crowded-long">>,
     open_interest     |-> <<"low-leverage", "normal", "elevated-risk">>,
     stablecoin_supply |-> <<"deploying", "neutral", "accumulating">>]

\* the value a live answer is classified by
C13_Value(metric, doc) ==
    CASE metric = "fear_greed"        -> doc.value
      [] metric = "btc_dominance"     -> doc.btc
      [] metric = "funding_rates"     -> FundingAvgRate(doc)
      [] metric = "open_interest"     -> doc.openInterest
      [] metric = "stablecoin_supply" -> StablecoinAvgChange(doc)

\* index of the bucket of x when a threshold belongs to the bucket below it
C13_UpperInclusive(x, thr) == 1 + Cardinality({i \in DOMAIN thr : thr[i] < x})
\* index of the bucket of x when a threshold belongs to the bucket above it
C13_LowerInclusive(x, thr) == 1 + Cardinality({i \in DOMAIN thr : thr[i] <= x})

C13_Classified(metric, x, interpretation, idx) ==
    /\ idx \in DOMAIN C13_Buckets[metric]
    /\ interpretation = C13_Buckets[metric][idx]

\* a daily call answered from a live document holding a number
C13_Live ==
    /\ step' = "call" /\ fn = "daily" /\ reqs'[1].ans.status = "ok"
    /\ C13_Value(reqs'[1].req, reqs'[1].ans.doc) # NaN

C13_AsClaimed ==
    [][C13_Live
        => LET metric == reqs'[1].req
               x == C13_Value(metric, reqs'[1].ans.doc)
           IN C13_Classified(metric, x, res'.body.interpretation,
                  C13_UpperInclusive(x, C13_Thresholds[metric]))]_vars

C13_Boundaries ==
    [][C13_Live
        => LET metric == reqs'[1].req
               x == C13_Value(metric, reqs'[1].ans.doc)
           IN C13_Classified(metric, x, res'.body.interpretation,
                  IF metric = "btc_dominance"
                  THEN C13_LowerInclusive(x, C13_Thresholds[metric])
                  ELSE C13_UpperInclusive(x, C13_Thresholds[metric]))]_vars

C13_Witness ==
    /\ step = "call" /\ fn = "daily" /\ reqs[1].req = "btc_dominance"
    /\ reqs[1].ans.status = "ok" /\ reqs[1].ans.doc.btc = 550
    /\ res.body.interpretation = "risk-off"

(***************************************************************************)
(* C14: the context sentence is a function of (metric, interpretation)     *)
(* over the payloads of the daily metric: the response just sent and any   *)
(* payload the endpoint builds (live, per-metric fallback, handler-level   *)
(* fallback) that has the same metric and interpretation carry the same    *)
(* context.                                                                *)
(***************************************************************************)
C14_ContextFunction ==
    (step = "call" /\ fn = "daily")
        => \A p \in DailyPayloads :
              (p.metric = res.body.metric
                  /\ p.interpretation = res.body.interpretation)
              => p.context = res.body.context

(***************************************************************************)
(* C15: a zero denominator never reaches the output.  In a live market     *)
(* mood response and in a daily metric response no figure is NaN; a 24 h   *)
(* volume of 0 gives the M/V ratio 20, an empty exchange list gives the    *)
(* funding rate 0.                                                         *)
(***************************************************************************)
C15_NoZeroDenominator ==
    /\ (step = "call" /\ fn = "mood" /\ Len(reqs) = 2 /\ reqs[2].ok)
        => /\ res.body.breadth # NaN
           /\ res.body.breadthAvg24h # NaN
           /\ res.body.mvRatio24h # NaN
           /\ res.body.mvRatio7d # NaN
           /\ (reqs[1].ans.doc.volume = 0 => res.body.mvRatio24h = 200)
    /\ (step = "call" /\ fn = "daily")
        => /\ res.body.numericValue # NaN
           /\ res.body.change # [h24 |-> NaN]
           /\ (reqs[1].req = "funding_rates" /\ reqs[1].ans = Doc(<<>>)
                  => res.body.numericValue = 0)

(***************************************************************************)
(* C16: when a call of the market or top-100 function fetches              *)
(* successfully, the timestamp stored with the new entry is the time at    *)
(* the moment of the write, after the upstream calls completed; so the     *)
(* entry is inside its window (5 and 15 minutes) right after the write.    *)
(***************************************************************************)
C16_WriteStampsNow ==
    [][(step' = "call" /\ fn \in {"market", "coins"}
            /\ reqs' # <<>> /\ ~FetchFailed(reqs'))
        => /\ cache'.data # Null
           /\ cache'.timestamp = clock'
           /\ clock' - cache'.timestamp
                  < (IF fn = "market" THEN 300000 ELSE 900000)]_vars

(***************************************************************************)
(* C17: the ETF flows function without SOSOVALUE_API_KEY makes no upstream *)
(* request and answers 200 with the mock payload (source = "mock"), the    *)
(* same on every call except for `updated`; with the key set and the       *)
(* upstream failing it answers 200 with that same mock payload.            *)
(***************************************************************************)
C17_MockPayload ==
    [yesterday |-> [amount |-> 438, date |-> "Yesterday"],
     week |-> <<[day |-> "Mon", amount |-> 215], [day |-> "Tue", amount |-> 380],
                [day |-> "Wed", amount |-> -120], [day |-> "Thu", amount |-> 290],
                [day |-> "Fri", amount |-> 438]>>,
     insight |-> "Third consecutive day of net inflows",
     source |-> "mock"]

C17_EtfMock ==
    [][(step' = "call" /\ fn = "etf" /\ (~apiKey \/ FetchFailed(reqs')))
        => /\ ~apiKey => reqs' = <<>>
           /\ apiKey => Len(reqs') = 1
           /\ res'.status = 200
           /\ res'.body.source = "mock"
           /\ DOMAIN res'.body = DOMAIN C17_MockPayload \cup {"updated"}
           /\ SamePayload(res'.body, C17_MockPayload, {})
           /\ res'.body.updated = toISOString(clock')]_vars

\* a mock answer without the key, after the clock has moved
C17_Witness ==
    /\ step = "call" /\ fn = "etf" /\ ~apiKey /\ reqs = <<>>
    /\ res.body.source = "mock" /\ ticks >= 2

\* a mock answer with the key set and the upstream failing
C17_WitnessKey ==
    /\ step = "call" /\ fn = "etf" /\ apiKey /\ FetchFailed(reqs)
    /\ res.body.source = "mock"

(***************************************************************************)
(* C18: the show metadata of the podcast answer is read only from the feed *)
(* content that precedes the first <item>: it is what the feed cut at its  *)
(* first item gives, and a field whose tag or attribute is absent there    *)
(* takes its default, whatever the items hold.                             *)
(***************************************************************************)
C18_Channel(xml) ==
    SubSeq(xml, 1, Cardinality({i \in 1..Len(xml) :
                        \A j \in 1..i : xml[j].tag # "<item>"}))

C18_Absent(content, tag) == \A i \in 1..Len(content) : content[i].tag # tag

C18_ChannelScoping ==
    [][(step' = "call" /\ fn = "podcast" /\ reqs'[1].ok)
        => LET xml == reqs'[1].ans.doc
               channel == C18_Channel(xml)
               show == res'.body.show
           IN /\ show = parseShowMetadata(channel)
              /\ C18_Absent(channel, "title") => show.title = "The Breakdown"
              /\ C18_Absent(channel, "description") => show.description = ""
              /\ C18_Absent(channel, "itunes:author") => show.author = "NLW"
              /\ (C18_Absent(channel, "itunes:image") /\ C18_Absent(channel, "url"))
                    => show.image = DefaultImage]_vars

(***************************************************************************)
(* C19: a market cap is shown as "$" + cap / 1e12 with one decimal + "T"   *)
(* from 1e12 on, as "$" + cap / 1e9 with no decimals + "B" from 1e9 up to  *)
(* 1e12, and as "$" + cap below (1.5e12 is "$1.5T", 7e9 is "$7B", 500 is   *)
(* "$500"); the two definitions of formatMarketCap give the same string.   *)
(***************************************************************************)
\* text shows cap as the claim says; a value exactly half way between two
\* roundings may go either way
C19_Shown(cap, text) ==
    IF cap.hi >= 1000
    THEN \E n \in 0..200 :
            /\ text = <<"$">> \o Digits(n \div 10) \o <<".", Digit(n % 10), "T">>
            /\ n * 100 - 50 <= cap.hi /\ cap.hi <= n * 100 + 50
            /\ (cap.hi = n * 100 + 50) => cap.lo = 0
    ELSE IF cap.hi >= 1
    THEN \E n \in 1..1000 :
            /\ text = <<"$">> \o Digits(n) \o <<"B">>
            /\ \/ n = cap.hi /\ 2 * cap.lo <= E9
               \/ n = cap.hi + 1 /\ 2 * cap.lo >= E9
    ELSE text = <<"$">> \o Digits(cap.lo)

C19_FormatMarketCap ==
    [][(step' \in {"renderMorningBrief", "renderMarketData"}
            /\ briefData'.total_market_cap # Cap(0, 0))
        => LET cap == briefData'.total_market_cap
           IN /\ C19_Shown(cap, totalMarket')
              /\ formatMarketCap_215(cap) = formatMarketCap_534(cap)
              /\ cap = Cap(1500, 0) => totalMarket' = <<"$", "1", ".", "5", "T">>
              /\ cap = Cap(7, 0) => totalMarket' = <<"$", "7", "B">>
              /\ cap = Cap(0, 500) => totalMarket' = <<"$", "5", "0", "0">>]_vars

C19_Witness ==
    /\ step = "renderMarketData" /\ briefData.total_market_cap = Cap(999, 500000000)
    /\ totalMarket = <<"$", "1", "0", "0", "0", "B">>

(***************************************************************************)
(* C20: in the market, top-100 and personal functions the cache slot       *)
(* changes only in a call that fetched and whose fetch succeeded -- a call *)
(* served from the slot, a call whose fetch failed and the passing of time *)
(* leave it as it is -- and a populated slot never becomes absent again.   *)
(***************************************************************************)
C20_Written ==
    /\ step' = "call"
    /\ OneAttempt(fn, reqs') /\ ~FetchFailed(reqs')
    /\ cache'.data # Null /\ SamePayload(res'.body, cache'.data, {})

C20_SlotFrame ==
    [][(fn \in CachedFns) =>
          (/\ (cache' # cache) => C20_Written
           /\ (step' = "call" /\ (reqs' = <<>> \/ FetchFailed(reqs')))
                 => (cache' = cache)
           /\ (step' = "tick") => (cache' = cache)
           /\ (cache.data # Null) => (cache'.data # Null))]_vars

\* a populated slot, older than its window, has survived a failed fetch
C20_Witness ==
    /\ fn \in CachedFns /\ step = "call" /\ FetchFailed(reqs)
    /\ cache.data # Null /\ IsStale(res)

(***************************************************************************)
(* C21: overlapping invocations that miss the cache each fetch for         *)
(* themselves and each successful one writes.  The slot changes only by    *)
(* such a write; what it then holds is the complete pair of the writing    *)
(* invocation (its payload, and the timestamp that payload was built       *)
(* with), never fields of two invocations; so the slot always holds the    *)
(* pair of the invocation that wrote last.                                 *)
(***************************************************************************)
\* the slot holds one invocation's pair: payload and timestamp (and date)
\* belong together
C21_Complete(f, c) ==
    /\ c.data # Null
    /\ c.timestamp = c.data.updatedTimestamp
    /\ f = "personal" => c.date = c.data.dataDate

C21_LastWriteWins ==
    [][/\ (step' = "finish")
            => /\ OneAttempt(fn, reqs')
               /\ FetchFailed(reqs') => cache' = cache
               /\ ~FetchFailed(reqs')
                    => /\ C21_Complete(fn, cache')
                       /\ \E i \in Invocations :
                            /\ inv[i].pc = "await" /\ inv'[i].pc = "done"
                            /\ cache'.timestamp = inv[i].now
                       /\ SamePayload(res'.body, cache'.data, {})
       /\ (cache' # cache) => (step' = "finish" /\ ~FetchFailed(reqs'))
       /\ (cache'.data # Null)
            => /\ C21_Complete(fn, cache')
               /\ SamePayload(lastFresh', cache'.data, {})]_vars

\* one invocation has written while another, which also missed, is in flight
C21_Witness ==
    /\ step = "finish" /\ ~FetchFailed(reqs) /\ cache.data # Null
    /\ \E j \in Invocations : inv[j].pc = "await" /\ inv[j].now # cache.timestamp

(***************************************************************************)
(* C22: the personal function answers from the slot, without the stale     *)
(* flag, only when an entry is present, today's UTC date is the entry's    *)
(* date and less than 24 h have passed since the entry's timestamp.  As    *)
(* claimed the cacheAge of such an answer is below 86400 s; the code       *)
(* rounds the age to the nearest second, so 86400 itself occurs.           *)
(***************************************************************************)
C22_Hit == step' = "call" /\ fn = "personal" /\ IsCachedHit(res')

C22_Checked ==
    /\ reqs' = <<>>
    /\ cache.data # Null
    /\ cache.date = clock \div 86400000
    /\ clock - cache.timestamp >= 0
    /\ clock - cache.timestamp < 86400000
    /\ 2 * (1000 * res'.body.cacheAge - (clock - cache.timestamp)) <= 1000
    /\ 2 * ((clock - cache.timestamp) - 1000 * res'.body.cacheAge) <= 1000

C22_AsClaimed ==
    [][C22_Hit => (C22_Checked /\ res'.body.cacheAge < 86400)]_vars

C22_CheckStep ==
    [][C22_Hit => (C22_Checked /\ res'.body.cacheAge <= 86400)]_vars

\* an entry written at midnight is served 400 ms before the next midnight
C22_Witness ==
    /\ step = "call" /\ fn = "personal" /\ IsCachedHit(res)
    /\ res.body.cacheAge = 86400

(***************************************************************************)
(* C23  Cancel in the settings modal discards the unsaved changes: after   *)
(* toggles and chip removals followed by Cancel, state.userCoins equals    *)
(* the list last saved to storage, the empty list when nothing was ever    *)
(* saved.                                                                  *)
(***************************************************************************)
C23_LastSaved == IF localStorage.has THEN JSONparse(localStorage.item) ELSE <<>>

C23_CancelDiscards ==
    [][(step' = "cancelSettings" /\ events' # events)
            => state'.userCoins = C23_LastSaved']_vars

(***************************************************************************)
(* C28  Coin limit of the Personal Edition: from a stored list of at most  *)
(* five coins without a duplicate id, after any sequence of user           *)
(* operations state.userCoins has at most maxCoinsFree entries and holds   *)
(* no coin id twice.                                                       *)
(***************************************************************************)
C28_CoinLimit ==
    /\ Len(state.userCoins) <= maxCoinsFree
    /\ \A i, j \in DOMAIN state.userCoins :
            state.userCoins[i].id = state.userCoins[j].id => i = j

\* the fifth coin has just been added in the settings modal and more coins
\* are on offer than the list may hold
C28_Witness ==
    /\ step = "optionClick"
    /\ document.settings
    /\ Len(state.userCoins) = maxCoinsFree
    /\ Len(state.availableCoins) > maxCoinsFree
    /\ state.userCoins[maxCoinsFree].weight = "moderate"
    /\ JSONparse(localStorage.item) # state.userCoins

(***************************************************************************)
(* C24  cacheAge is never negative: every response that carries cacheAge,  *)
(* cached or stale, has cacheAge >= 0 in every interleaving of overlapping *)
(* invocations of one function.                                            *)
(***************************************************************************)
C24_CacheAgeNotNegative ==
    Has(res.body, "cacheAge") => res.body.cacheAge >= 0

(***************************************************************************)
(* C25  The timestamp in the slot never decreases, whatever the            *)
(* interleaving of the invocations of one function: an invocation that     *)
(* started earlier and finished its fetch later does not replace an entry  *)
(* by one with an older timestamp.                                         *)
(***************************************************************************)
C25_TimestampMonotonic ==
    [][(cache.data # Null /\ cache'.data # Null)
            => cache'.timestamp >= cache.timestamp]_vars

(***************************************************************************)
(* C26  A failure of the daily metric keeps the day's metric: when the     *)
(* upstream of the metric selected for day d fails (non-OK status,         *)
(* transport error, or an answer without the data) the response is 200     *)
(* with source "fallback", the metric of the selector for d, dayOfWeek d   *)
(* and updated, and it is not the payload of the handler's own catch (the  *)
(* one with an error field).                                               *)
(***************************************************************************)
C26_FailureKeepsMetric ==
    [][(step' = "call" /\ fn = "daily" /\ reqs'[1].ans \in {Down, NoData})
        => /\ res'.status = 200
           /\ res'.body.source = "fallback"
           /\ res'.body.metric = Selector(getUTCDay(clock))
           /\ res'.body.dayOfWeek = getUTCDay(clock)
           /\ Has(res'.body, "updated")
           /\ ~Has(res'.body, "error")]_vars

(***************************************************************************)
(* C27  The fallback payloads agree with the live classifier: for the      *)
(* fallbacks of Fear & Greed (65), BTC dominance (52), the funding rate    *)
(* (0.0100 % per 8 h) and open interest (18.5 B), the live threshold rule  *)
(* of the metric applied to the fallback's number gives the interpretation *)
(* and the context the fallback carries.                                   *)
(***************************************************************************)
C27_Live(metric, numericValue) ==
    CASE metric = "fear_greed"    -> FearGreedInterpretation(numericValue)
      [] metric = "btc_dominance" -> DominanceInterpretation(numericValue)
      [] metric = "funding_rates" -> FundingInterpretation(numericValue)
      [] metric = "open_interest" -> OpenInterestInterpretation(numericValue)

C27_FallbackAgrees ==
    (step = "call" /\ fn = "daily" /\ res.body.source = "fallback"
            /\ res.body.metric # "stablecoin_supply")
        => LET live == C27_Live(res.body.metric, res.body.numericValue)
           IN /\ res.body.interpretation = live.interpretation
              /\ res.body.context = live.context

(***************************************************************************)
(* C29  Switching the edition while a load is in flight: once every        *)
(* pending loadContent has settled (and none of them failed), the stored   *)
(* brief and the rendered content are those of currentRegion, whatever     *)
(* order the fetches completed in.                                         *)
(***************************************************************************)
C29_Settled ==
    /\ fn \in Scripts
    /\ loads # <<>>
    /\ \A i \in DOMAIN loads : loads[i].pc = "done" /\ ~loads[i].failed

C29_SettledShowsCurrent ==
    C29_Settled
        => /\ briefData = Brief(currentRegion)
           /\ rendered = [headline |-> currentRegion, fulcrum |-> currentRegion]

====
